---- MODULE Spec2Model ----
(***************************************************************************)
(* State-machine model of the session, usage and quota ledger              *)
(* (server/app/session_store.py) and of the chat route that drives it      *)
(* (app/main.py).                                                           *)
(*                                                                         *)
(* Python values are represented as follows.                               *)
(*   dict / DynamoDB item : a function whose DOMAIN is the set of keys     *)
(*                          that are present (a missing attribute is a     *)
(*                          missing key, as in the store)                  *)
(*   None                 : <<>> ; an Optional result is <<>> or <<x>>     *)
(*   str                  : a tuple of tokens, or a TLA+ string for        *)
(*                          identifiers that are only ever compared        *)
(*   datetime / time.time : the integer clock `now` (seconds)              *)
(*   ISO date string      : `today`, a <<year, month, day>> triple         *)
(* One DynamoDB table holds every entity; the key prefixes SESSION#, MSG#, *)
(* USAGE#, SUB# keep the entities apart, so each prefix is one variable.   *)
(***************************************************************************)
EXTENDS Integers, Sequences, FiniteSets, TLC

\* ---------------------------------------------------------------- bounds
TickStep == 150
MaxTime == 300
MaxRows == 2
MaxMsgs == 1
MaxLog == 3
NumProcs == 2
MaxCalls == 3
MaxYear == 2
MonthsPerYear == 2
DaysPerMonth == 2

\* ------------------------------------------------------ program constants
CACHE_DURATION_SECONDS == 300
SESSION_TTL_DAYS == 30
SecondsPerDay == 86400

\* ------------------------------------------------------------ input sets
Tenants == {"t1", "t2"}
Users == {"u1"}
NoId == <<>>
GivenIds == {<<"s1">>}
RandHex == {"0a1b2c3d"}
None == <<>>
Some(x) == <<x>>

VARIABLES
  now,            \* the wall clock, in seconds
  sessions,       \* SESSION# rows, keyed <<tenant, user, session id>>
  messages,       \* MSG# rows, keyed <<tenant, user, session id, ms, hash8>>
  usage,          \* USAGE# rows, keyed <<tenant, date, session id, ms>>
  cost_metrics,   \* COST# rows, keyed <<tenant, date, ms>>
  session_cache,  \* _session_cache: session id -> item
  cache_ttl,      \* _cache_ttl: session id -> expiry time
  lastCreate,     \* the create_session call that was the previous call, if any
  deleted,        \* keys whose delete_session returned True, untouched since
  log,            \* per session created on an empty key: contents appended
  obs,            \* what a caller remembers of its earlier calls, if anything
  pc,             \* concurrent callers of the ledger: where each one is
  job,            \* ... and the arguments and locals of its call
  acked,          \* counter updates the store has acknowledged, per counter
  today,          \* the calendar date, <<year, month, day>>
  sub,            \* SUB# rows (quota counters), keyed <<tenant, tier>>
  checked,        \* the previous check_usage_limits call and what it saw
  quota,          \* increments acknowledged since the initial state
  tenant_sessions, \* the chat handler's sessions table, by session_key
  tenant_usage,   \* the chat handler's usage table: the metrics written
  reqlog          \* per chat request: what it verified, did and returned

storeVars == <<sessions, messages, usage, cost_metrics>>
cacheVars == <<session_cache, cache_ttl>>
histVars == <<lastCreate, deleted, log, obs>>
procVars == <<pc, job, acked>>
quotaVars == <<today, sub, checked, quota>>
chatVars == <<tenant_sessions, tenant_usage, reqlog>>
vars == <<now, storeVars, cacheVars, histVars, procVars, quotaVars, chatVars>>

\* ------------------------------------------------------------ dict helpers
DictGet(d, k, dflt) == IF k \in DOMAIN d THEN d[k] ELSE dflt
DictSet(d, k, v) == [x \in DOMAIN d \cup {k} |-> IF x = k THEN v ELSE d[x]]
DictPop(d, k) == [x \in DOMAIN d \ {k} |-> d[x]]
DictUpdate(d, e) == [x \in DOMAIN d \cup DOMAIN e |-> IF x \in DOMAIN e THEN e[x] ELSE d[x]]
EmptyDict == <<>>

NowMs == now * 1000

\* ------------------------------------------------------------ the cache
is_cache_valid_inclusive(session_id) ==
  IF session_id \notin DOMAIN cache_ttl THEN FALSE
  ELSE now <= cache_ttl[session_id]

is_cache_valid(session_id) ==
  IF session_id \notin DOMAIN cache_ttl THEN FALSE
  ELSE now < cache_ttl[session_id]

update_cache(session_id, data) ==
  /\ session_cache' = DictSet(session_cache, session_id, data)
  /\ cache_ttl' = DictSet(cache_ttl, session_id, now + CACHE_DURATION_SECONDS)

invalidate_cache(session_id) ==
  /\ session_cache' = DictPop(session_cache, session_id)
  /\ cache_ttl' = DictPop(cache_ttl, session_id)

\* ------------------------------------------------------------ key helpers
SessionPK(tenant_id, user_id) == <<"SESSION", tenant_id, user_id>>
SessionSK(session_id) == <<"SESSION", session_id>>
SessionKey(tenant_id, user_id, session_id) == <<tenant_id, user_id, session_id>>

generate_session_id(rnd) == <<"s", NowMs, rnd>>

\* Decimal -> int/float for JSON; every attribute of a session or message
\* item is a string or an integral number, which the conversion keeps.
serialize_item(item) == [k \in DOMAIN item |-> item[k]]

\* ------------------------------------------------------------ sessions
NewSession(tenant_id, user_id, session_id, title) ==
  [PK |-> SessionPK(tenant_id, user_id),
   SK |-> SessionSK(session_id),
   session_id |-> session_id,
   tenant_id |-> tenant_id,
   user_id |-> user_id,
   title |-> IF title = None THEN "New Conversation" ELSE title[1],
   created_at |-> now,
   updated_at |-> now,
   message_count |-> 0,
   total_tokens |-> 0,
   status |-> "active",
   metadata |-> EmptyDict,
   ttl |-> now + SESSION_TTL_DAYS * SecondsPerDay,
   GSI1PK |-> <<"TENANT", tenant_id>>,
   GSI1SK |-> <<"SESSION", now>>]

MessagesOf(tenant_id, user_id, session_id) ==
  {m \in DOMAIN messages :
     m[1] = tenant_id /\ m[2] = user_id /\ m[3] = session_id}

\* create_session: the record it returns.
create_session_result(tenant_id, user_id, sidOpt, rnd, title) ==
  LET session_id == IF sidOpt = NoId THEN generate_session_id(rnd) ELSE sidOpt
  IN serialize_item(NewSession(tenant_id, user_id, session_id, title))

\* create_session, the except branch: "Fall back to in-memory only".
create_session_no_fallback(session_id, session) ==
  UNCHANGED cacheVars

create_session_fallback(session_id, session) ==
  update_cache(session_id, session)

\* create_session: put_item and the cache; on a store error the cache alone.
create_session(tenant_id, user_id, sidOpt, rnd, title, ok) ==
  LET session_id == IF sidOpt = NoId THEN generate_session_id(rnd) ELSE sidOpt
      key == SessionKey(tenant_id, user_id, session_id)
      session == NewSession(tenant_id, user_id, session_id, title)
  IN /\ IF ok
        THEN /\ sessions' = DictSet(sessions, key, session)
             /\ update_cache(session_id, session)
        ELSE /\ UNCHANGED sessions
             /\ create_session_fallback(session_id, session)
     /\ UNCHANGED <<now, messages, usage, cost_metrics>>

\* get_session: what it returns in the current state (ok: the store read succeeds).
get_session_result(session_id, tenant_id, user_id, ok) ==
  LET key == SessionKey(tenant_id, user_id, session_id)
  IN IF is_cache_valid(session_id)
     THEN Some(serialize_item(session_cache[session_id]))
     ELSE IF ok
     THEN IF key \in DOMAIN sessions
          THEN Some(serialize_item(sessions[key]))
          ELSE None
     ELSE IF session_id \in DOMAIN session_cache
          THEN Some(serialize_item(session_cache[session_id]))
          ELSE None

\* A get_session that drops the cache entry when the store read fails.
get_session_invalidating(session_id, tenant_id, user_id, ok) ==
  LET key == SessionKey(tenant_id, user_id, session_id)
  IN /\ IF is_cache_valid(session_id) THEN UNCHANGED cacheVars
        ELSE IF ~ok THEN invalidate_cache(session_id)
        ELSE IF key \in DOMAIN sessions
        THEN update_cache(session_id, sessions[key])
        ELSE UNCHANGED cacheVars
     /\ UNCHANGED <<now, storeVars>>

\* get_session: its effect, the cache refresh on a store hit after a cache miss.
get_session(session_id, tenant_id, user_id, ok) ==
  LET key == SessionKey(tenant_id, user_id, session_id)
  IN /\ IF ~is_cache_valid(session_id) /\ ok /\ key \in DOMAIN sessions
        THEN update_cache(session_id, sessions[key])
        ELSE UNCHANGED cacheVars
     /\ UNCHANGED <<now, storeVars>>

\* update_session: the SET clause it builds (identity fields are skipped).
IdentityFields == {"PK", "SK", "session_id", "tenant_id", "user_id"}

update_expression_unfiltered(updates) ==
  DictUpdate([updated_at |-> now], updates)

update_expression(updates) ==
  DictUpdate([updated_at |-> now],
             [k \in DOMAIN updates \ IdentityFields |-> updates[k]])

\* update_item: creates the item when the key is absent (the store's upsert).
update_item(table, key, base, sets) ==
  DictSet(table, key, DictUpdate(DictGet(table, key, base), sets))

\* A SET clause naming updated_at twice is rejected by the store (ClientError).
update_session_ok(updates, ok) ==
  ok /\ "updated_at" \notin DOMAIN updates

update_session_result(session_id, tenant_id, user_id, updates, ok) ==
  LET key == SessionKey(tenant_id, user_id, session_id)
      base == [PK |-> SessionPK(tenant_id, user_id), SK |-> SessionSK(session_id)]
  IN IF DOMAIN updates = {}
     THEN get_session_result(session_id, tenant_id, user_id, ok)
     ELSE IF update_session_ok(updates, ok)
     THEN Some(serialize_item(
            update_item(sessions, key, base, update_expression(updates))[key]))
     ELSE None

update_session(session_id, tenant_id, user_id, updates, ok) ==
  LET key == SessionKey(tenant_id, user_id, session_id)
      base == [PK |-> SessionPK(tenant_id, user_id), SK |-> SessionSK(session_id)]
  IN IF DOMAIN updates = {}
     THEN get_session(session_id, tenant_id, user_id, ok)
     ELSE /\ IF update_session_ok(updates, ok)
             THEN /\ sessions' = update_item(sessions, key, base, update_expression(updates))
                  /\ update_cache(session_id, sessions'[key])
             ELSE UNCHANGED <<sessions, cacheVars>>
          /\ UNCHANGED <<now, messages, usage, cost_metrics>>

\* delete_session: delete_item, query of the MSG# prefix, batch delete, then
\* the cache; failAt names the store call that raises (0: none).  A failing
\* batch may already have removed some of the messages (gone).
delete_session_result(failAt) == failAt = 0

delete_session(session_id, tenant_id, user_id, failAt, gone) ==
  LET key == SessionKey(tenant_id, user_id, session_id)
      msgs == MessagesOf(tenant_id, user_id, session_id)
  IN /\ gone \subseteq msgs
     /\ failAt = 0 => gone = msgs
     /\ failAt \in {1, 2} => gone = {}
     /\ sessions' = IF failAt = 1 THEN sessions ELSE DictPop(sessions, key)
     /\ messages' = [m \in DOMAIN messages \ gone |-> messages[m]]
     /\ IF failAt = 0 THEN invalidate_cache(session_id) ELSE UNCHANGED cacheVars
     /\ UNCHANGED <<now, usage, cost_metrics>>

\* ------------------------------------------------------------ messages
\* Message contents: a str, or a list of content blocks.  v holds the tokens.
Text(v) == [type |-> "str", v |-> v]
Blocks(v) == [type |-> "list", v |-> v]
Contents == {Text(<<"hi">>), Text(<<"a">>), Blocks(<<"a">>)}

\* hashlib.md5(str(content).encode()).hexdigest()[:8], as a number:
\* md5("hi") = 49f68a5c.., md5("a") = 0cc175b9.., md5("['a']") = 4d6cc2fb..,
\* md5('["a"]') = 4c96bbc0.., md5("['b', 'a']") = 47b58786..; the text "['a']"
\* has the str() of the list ['a'] and so its hash.
md5_hex8(content) ==
  CASE content = Text(<<"hi">>) -> 1240894044
    [] content = Text(<<"a">>) -> 214005177
    [] content = Blocks(<<"a">>) -> 1298973435
    [] content = Text(<<"['a']">>) -> 1298973435
    [] content = Text(<<"[", "a", "]">>) -> 1284946880
    [] content = Blocks(<<"b", "a">>) -> 1203079046

\* json.dumps of a list of strings, as the tokens of the JSON text.
json_dumps(v) == <<"[">> \o v \o <<"]">>
json_loads(s) == SubSeq(s, 2, Len(s) - 1)

message_id(content) == <<NowMs, md5_hex8(content)>>

MessageKey(tenant_id, user_id, session_id, mid) ==
  <<tenant_id, user_id, session_id, mid[1], mid[2]>>

NewMessage(session_id, role, content, tenant_id, user_id) ==
  [PK |-> SessionPK(tenant_id, user_id),
   SK |-> <<"MSG", session_id, message_id(content)>>,
   message_id |-> message_id(content),
   session_id |-> session_id,
   role |-> role,
   content |-> IF content.type = "list" THEN json_dumps(content.v) ELSE content.v,
   content_type |-> IF content.type = "list" THEN "list" ELSE "text",
   created_at |-> now,
   metadata |-> EmptyDict]

\* SET updated_at = :upd, message_count = if_not_exists(message_count, 0) + 1,
\* evaluated by the store on the item as it is when the update arrives.
incr_message_count_if_absent(item, upd) ==
  DictUpdate(item, [updated_at |-> upd,
                    message_count |-> DictGet(item, "message_count", 0 + 1)])

incr_message_count(item, upd) ==
  DictUpdate(item, [updated_at |-> upd,
                    message_count |-> DictGet(item, "message_count", 0) + 1])

\* add_message: put_item of the message, then update_item of the session row;
\* failAt names the store call that raises (0: none).
add_message(session_id, role, content, tenant_id, user_id, failAt) ==
  LET key == SessionKey(tenant_id, user_id, session_id)
      base == [PK |-> SessionPK(tenant_id, user_id), SK |-> SessionSK(session_id)]
      message == NewMessage(session_id, role, content, tenant_id, user_id)
      mkey == MessageKey(tenant_id, user_id, session_id, message.message_id)
  IN /\ messages' = IF failAt = 1 THEN messages ELSE DictSet(messages, mkey, message)
     /\ sessions' = IF failAt = 0
                    THEN DictSet(sessions, key, incr_message_count(DictGet(sessions, key, base), now))
                    ELSE sessions
     /\ UNCHANGED <<now, usage, cost_metrics, cacheVars>>

\* Sort-key order of two MSG# keys of one session: "<ms>-<hash8>" compared as
\* text, the timestamps having the same number of digits.
SKLess(a, b) == a[4] < b[4] \/ (a[4] = b[4] /\ a[5] < b[5])

RECURSIVE SortBySK(_)
SortBySK(S) ==
  IF S = {} THEN <<>>
  ELSE LET m == CHOOSE x \in S : \A y \in S \ {x} : SKLess(x, y)
       IN <<m>> \o SortBySK(S \ {m})

Take(seq, n) == SubSeq(seq, 1, IF n < Len(seq) THEN n ELSE Len(seq))

\* A get_messages that parses every content that reads as a JSON list, whatever
\* its content_type.
get_messages_result_untagged(session_id, tenant_id, user_id, limit, ok) ==
  IF ~ok THEN <<>>
  ELSE LET keys == Take(SortBySK(MessagesOf(tenant_id, user_id, session_id)), limit)
           parse(msg) == IF Len(msg.content) >= 2 /\ Head(msg.content) = "["
                         THEN [msg EXCEPT !.content = json_loads(msg.content)]
                         ELSE msg
       IN [i \in 1..Len(keys) |-> parse(serialize_item(messages[keys[i]]))]

\* get_messages without a cursor: the MSG#<session>#-prefix query, ascending,
\* at most `limit` items, list contents parsed back.
get_messages_result(session_id, tenant_id, user_id, limit, ok) ==
  IF ~ok THEN <<>>
  ELSE LET keys == Take(SortBySK(MessagesOf(tenant_id, user_id, session_id)), limit)
           parse(msg) == IF DictGet(msg, "content_type", None) = "list"
                         THEN [msg EXCEPT !.content = json_loads(msg.content)]
                         ELSE msg
       IN [i \in 1..Len(keys) |-> parse(serialize_item(messages[keys[i]]))]

Tick ==
  /\ now + TickStep <= MaxTime
  /\ now' = now + TickStep
  /\ UNCHANGED <<storeVars, cacheVars, histVars, procVars, quotaVars, chatVars>>

\* ------------------------------------------------------------ initial states
Procs == 1..NumProcs

InitLedger ==
  /\ now = 0
  /\ sessions = EmptyDict
  /\ messages = EmptyDict
  /\ usage = EmptyDict
  /\ cost_metrics = EmptyDict
  /\ session_cache = EmptyDict
  /\ cache_ttl = EmptyDict
  /\ lastCreate = None
  /\ deleted = {}
  /\ log = EmptyDict
  /\ obs = None

InitProcs ==
  /\ pc = [p \in Procs |-> "idle"]
  /\ job = [p \in Procs |-> EmptyDict]
  /\ acked = [message_count |-> 0, total_tokens |-> 0, overlap |-> FALSE, calls |-> 0]

\* The calendar: dates are <<year, month, day>>, as the ISO date strings the
\* quota rows store; the bounds make it a small calendar.
Dates == (1..MaxYear) \X (1..MonthsPerYear) \X (1..DaysPerMonth)
FirstDate == <<1, 1, 1>>
LastDate == <<MaxYear, MonthsPerYear, DaysPerMonth>>
NextDate(d) ==
  IF d[3] < DaysPerMonth THEN <<d[1], d[2], d[3] + 1>>
  ELSE IF d[2] < MonthsPerYear THEN <<d[1], d[2] + 1, 1>>
  ELSE <<d[1] + 1, 1, 1>>
DateLE(a, b) ==
  \/ a[1] < b[1]
  \/ a[1] = b[1] /\ a[2] < b[2]
  \/ a[1] = b[1] /\ a[2] = b[2] /\ a[3] <= b[3]

NoRequest == [facts |-> EmptyDict, events |-> {}, status |-> 0]

InitQuota ==
  /\ today = FirstDate
  /\ sub = EmptyDict
  /\ checked = None
  /\ quota = [base |-> 0, succeeded |-> 0, rolled |-> FALSE, over |-> FALSE]

InitChat ==
  /\ tenant_sessions = EmptyDict
  /\ tenant_usage = {}
  /\ reqlog = [p \in Procs |-> NoRequest]

Init ==
  /\ InitLedger
  /\ InitProcs
  /\ InitQuota
  /\ InitChat

\* ------------------------------------------------------------ Spec
\* Callers of two tenants working on one caller-chosen session id.
UpdateChoices == {EmptyDict, [title |-> "Renamed"]}

CreateSession ==
  \E t \in Tenants, u \in Users, s \in GivenIds, ok \in BOOLEAN :
    /\ create_session(t, u, s, "", None, ok)
    /\ deleted' = deleted \ {SessionKey(t, u, s)}
    /\ UNCHANGED <<lastCreate, log, procVars, quotaVars, chatVars, obs>>

GetSession ==
  \E t \in Tenants, u \in Users, s \in GivenIds, ok \in BOOLEAN :
    /\ get_session(s, t, u, ok)
    /\ UNCHANGED <<histVars, procVars, quotaVars, chatVars>>

UpdateSession ==
  \E t \in Tenants, u \in Users, s \in GivenIds, upd \in UpdateChoices, ok \in BOOLEAN :
    /\ update_session(s, t, u, upd, ok)
    /\ deleted' = IF DOMAIN upd = {} THEN deleted ELSE deleted \ {SessionKey(t, u, s)}
    /\ UNCHANGED <<lastCreate, log, procVars, quotaVars, chatVars, obs>>

DeleteSession ==
  \E t \in Tenants, u \in Users, s \in GivenIds, failAt \in 0..3 :
    \E gone \in SUBSET MessagesOf(t, u, s) :
      /\ delete_session(s, t, u, failAt, gone)
      /\ deleted' = IF delete_session_result(failAt) /\ SessionKey(t, u, s) \in DOMAIN sessions
                    THEN deleted \cup {SessionKey(t, u, s)} ELSE deleted
      /\ UNCHANGED <<lastCreate, log, procVars, quotaVars, chatVars, obs>>

AddMessage ==
  \E t \in Tenants, u \in Users, s \in GivenIds, failAt \in 0..2 :
    /\ Cardinality(DOMAIN messages) < MaxMsgs
    /\ add_message(s, "user", Text(<<"hi">>), t, u, failAt)
    /\ deleted' = deleted \ {SessionKey(t, u, s)}
    /\ UNCHANGED <<lastCreate, log, procVars, quotaVars, chatVars, obs>>

Next ==
  \/ CreateSession
  \/ GetSession
  \/ UpdateSession
  \/ DeleteSession
  \/ AddMessage
  \/ Tick

Spec == Init /\ [][Next]_vars

\* C1 (as claimed): get_session(s, t, u) returns not-found or a record of the
\* caller's own partition, whose tenant_id and user_id are t and u; never a
\* record of another (tenant, user).
C1_TenantIsolation ==
  \A t \in Tenants, u \in Users, s \in GivenIds, ok \in BOOLEAN :
    LET r == get_session_result(s, t, u, ok)
    IN r = None \/ ( /\ r[1].PK = SessionPK(t, u)
                     /\ "tenant_id" \in DOMAIN r[1] => r[1].tenant_id = t
                     /\ "user_id" \in DOMAIN r[1] => r[1].user_id = u )

\* C6 (as claimed): once delete_session(s, t, u) has returned True, and until
\* (t, u) writes to s again, get_session(s, t, u) returns not-found and
\* get_messages(s, t, u) returns the empty sequence.
C6_CascadingDelete ==
  \A key \in deleted : \A ok \in BOOLEAN :
    /\ get_session_result(key[3], key[1], key[2], ok) = None
    /\ get_messages_result(key[3], key[1], key[2], MaxMsgs + 1, ok) = <<>>

\* ------------------------------------------------------------ SpecCreate
\* create_session with a caller-chosen or a generated id, then reads.
SessionIds == {k[3] : k \in DOMAIN sessions} \cup DOMAIN session_cache

CreateAny ==
  \E t \in Tenants, u \in Users, s \in GivenIds \cup {NoId}, r \in RandHex, ok \in BOOLEAN :
    LET res == create_session_result(t, u, s, r, None)
    IN /\ Cardinality(SessionIds \cup {res.session_id}) <= MaxRows
       /\ create_session(t, u, s, r, None, ok)
       /\ lastCreate' = Some([at |-> now, r |-> res])
       /\ UNCHANGED <<deleted, log, procVars, quotaVars, chatVars, obs>>

GetAny ==
  \E t \in Tenants, u \in Users, s \in GivenIds \cup SessionIds, ok \in BOOLEAN :
    /\ get_session(s, t, u, ok)
    /\ lastCreate' = None
    /\ UNCHANGED <<deleted, log, procVars, quotaVars, chatVars, obs>>

DeleteAny ==
  \E t \in Tenants, u \in Users, s \in SessionIds, failAt \in 0..1 :
    /\ delete_session(s, t, u, failAt, {})
    /\ lastCreate' = None
    /\ UNCHANGED <<deleted, log, procVars, quotaVars, chatVars, obs>>

NextCreate ==
  \/ CreateAny
  \/ GetAny
  \/ DeleteAny
  \/ Tick

SpecCreate == Init /\ [][NextCreate]_vars

\* C2: get_session called right after create_session returned r, within the
\* cache validity window, returns a record with r's session_id, tenant_id and
\* user_id, whether or not create_session's store write succeeded.
C2_ReadYourCreate ==
  (lastCreate # None /\ now < lastCreate[1].at + CACHE_DURATION_SECONDS) =>
    LET r == lastCreate[1].r
    IN \A ok \in BOOLEAN :
         LET g == get_session_result(r.session_id, r.tenant_id, r.user_id, ok)
         IN /\ g # None
            /\ g[1].session_id = r.session_id
            /\ g[1].tenant_id = r.tenant_id
            /\ g[1].user_id = r.user_id

\* A create_session with a generated id whose store write failed, read back
\* later within the window.
C2_Witness ==
  /\ lastCreate # None
  /\ lastCreate[1].at < now
  /\ now < lastCreate[1].at + CACHE_DURATION_SECONDS
  /\ lastCreate[1].r.session_id \notin GivenIds
  /\ SessionKey(lastCreate[1].r.tenant_id, lastCreate[1].r.user_id,
                lastCreate[1].r.session_id) \notin DOMAIN sessions
  /\ get_session_result(lastCreate[1].r.session_id, lastCreate[1].r.tenant_id,
                        lastCreate[1].r.user_id, FALSE) # None

\* ------------------------------------------------------------ SpecMsgs
\* One session, created once on an empty key, and appends to it.
ContentOf(msg) ==
  IF msg.content_type = "list" THEN Blocks(msg.content) ELSE Text(msg.content)

CreateOne ==
  \E ok \in BOOLEAN :
    LET key == SessionKey("t1", "u1", <<"s1">>)
    IN /\ key \notin DOMAIN sessions
       /\ create_session("t1", "u1", <<"s1">>, "", None, ok)
       /\ log' = IF ok /\ MessagesOf("t1", "u1", <<"s1">>) = {}
                 THEN DictSet(log, key, <<>>) ELSE log
       /\ UNCHANGED <<lastCreate, deleted, procVars, quotaVars, chatVars, obs>>

AppendMessage ==
  \E c \in Contents, failAt \in 0..2 :
    LET key == SessionKey("t1", "u1", <<"s1">>)
    IN /\ Cardinality(DOMAIN messages) < MaxLog
       /\ DictGet(DictGet(sessions, key, EmptyDict), "message_count", 0) < MaxLog
       /\ add_message(<<"s1">>, "user", c, "t1", "u1", failAt)
       /\ log' = IF key \notin DOMAIN log THEN log
                 ELSE IF failAt = 0 THEN DictSet(log, key, Append(log[key], c))
                 ELSE DictPop(log, key)
       /\ UNCHANGED <<lastCreate, deleted, procVars, quotaVars, chatVars, obs>>

NextMsgs ==
  \/ CreateOne
  \/ AppendMessage
  \/ Tick

SpecMsgs == Init /\ [][NextMsgs]_vars

\* C3 (as claimed): after N add_message calls without store failure on a
\* session, its message_count is N and get_messages returns the N contents in
\* the order appended.
C3_AppendCountAndOrder ==
  \A key \in DOMAIN log :
    LET got == get_messages_result(key[3], key[1], key[2], MaxLog + 1, TRUE)
    IN /\ key \in DOMAIN sessions
       /\ sessions[key].message_count = Len(log[key])
       /\ [i \in 1..Len(got) |-> ContentOf(got[i])] = log[key]

\* ------------------------------------------------------------ usage
\* now.strftime('%Y-%m-%d'), as a day number.
Date(t) == t \div SecondsPerDay

UsageKey(tenant_id, session_id) == <<tenant_id, Date(now), session_id, NowMs>>

NewUsage(session_id, tenant_id, user_id, input_tokens, output_tokens, model, cost_usd) ==
  [PK |-> <<"USAGE", tenant_id>>,
   SK |-> <<"USAGE", Date(now), session_id, NowMs>>,
   tenant_id |-> tenant_id,
   user_id |-> user_id,
   session_id |-> session_id,
   input_tokens |-> input_tokens,
   output_tokens |-> output_tokens,
   total_tokens |-> input_tokens + output_tokens,
   model |-> model,
   cost_usd |-> cost_usd,
   created_at |-> now,
   date |-> Date(now)]

\* SET total_tokens = if_not_exists(total_tokens, 0) + :tokens
add_total_tokens(item, tokens) ==
  DictUpdate(item, [total_tokens |-> DictGet(item, "total_tokens", 0) + tokens])

\* record_usage whose session update runs although the event write failed.
record_usage_unguarded(session_id, tenant_id, user_id, input_tokens, output_tokens, model, cost_usd, failAt) ==
  LET key == SessionKey(tenant_id, user_id, session_id)
      base == [PK |-> SessionPK(tenant_id, user_id), SK |-> SessionSK(session_id)]
      event == NewUsage(session_id, tenant_id, user_id, input_tokens, output_tokens, model, cost_usd)
  IN /\ usage' = IF failAt = 1 THEN usage
                 ELSE DictSet(usage, UsageKey(tenant_id, session_id), event)
     /\ sessions' = IF failAt # 2
                    THEN DictSet(sessions, key,
                           add_total_tokens(DictGet(sessions, key, base),
                                            input_tokens + output_tokens))
                    ELSE sessions
     /\ UNCHANGED <<now, messages, cost_metrics, cacheVars>>

\* record_usage: put_item of the usage event, then update_item of the session
\* row; failAt names the store call that raises (0: none).
record_usage(session_id, tenant_id, user_id, input_tokens, output_tokens, model, cost_usd, failAt) ==
  LET key == SessionKey(tenant_id, user_id, session_id)
      base == [PK |-> SessionPK(tenant_id, user_id), SK |-> SessionSK(session_id)]
      event == NewUsage(session_id, tenant_id, user_id, input_tokens, output_tokens, model, cost_usd)
  IN /\ usage' = IF failAt = 1 THEN usage
                 ELSE DictSet(usage, UsageKey(tenant_id, session_id), event)
     /\ sessions' = IF failAt = 0
                    THEN DictSet(sessions, key,
                           add_total_tokens(DictGet(sessions, key, base),
                                            input_tokens + output_tokens))
                    ELSE sessions
     /\ UNCHANGED <<now, messages, cost_metrics, cacheVars>>

\* ------------------------------------------------------------ SpecCounters
\* Concurrent add_message and record_usage calls on one existing session; a
\* step is one store call, and a failed call ends the handler (the except
\* branch).
TheTenant == "t1"
TheUser == "u1"
TheSid == <<"s1">>
TheSession == SessionKey(TheTenant, TheUser, TheSid)
TheBase == [PK |-> SessionPK(TheTenant, TheUser), SK |-> SessionSK(TheSid)]

Busy(p) == \E q \in Procs \ {p} : pc[q] # "idle"

AddMessagePut(p) ==
  \E c \in {Text(<<"hi">>)}, ok \in BOOLEAN :
    LET message == NewMessage(TheSid, "user", c, TheTenant, TheUser)
        mkey == MessageKey(TheTenant, TheUser, TheSid, message.message_id)
    IN /\ pc[p] = "idle"
       /\ acked.calls < MaxCalls
       /\ messages' = IF ok THEN DictSet(messages, mkey, message) ELSE messages
       /\ pc' = [pc EXCEPT ![p] = IF ok THEN "add_message_update" ELSE "idle"]
       /\ job' = [job EXCEPT ![p] = [now |-> now]]
       /\ acked' = [acked EXCEPT !.calls = @ + 1]
       /\ UNCHANGED <<now, sessions, usage, cost_metrics, cacheVars, histVars, quotaVars, chatVars>>

AddMessageUpdate(p) ==
  \E ok \in BOOLEAN :
    /\ pc[p] = "add_message_update"
    /\ sessions' = IF ok
                   THEN DictSet(sessions, TheSession,
                          incr_message_count(DictGet(sessions, TheSession, TheBase),
                                             job[p].now))
                   ELSE sessions
    /\ pc' = [pc EXCEPT ![p] = "idle"]
    /\ job' = [job EXCEPT ![p] = EmptyDict]
    /\ acked' = IF ok
                THEN [acked EXCEPT !.message_count = @ + 1,
                                   !.overlap = @ \/ Busy(p)]
                ELSE acked
    /\ UNCHANGED <<now, messages, usage, cost_metrics, cacheVars, histVars, quotaVars, chatVars>>

RecordUsagePut(p) ==
  \E input_tokens \in 1..2, ok \in BOOLEAN :
    LET event == NewUsage(TheSid, TheTenant, TheUser, input_tokens, 1, "m", 0)
    IN /\ pc[p] = "idle"
       /\ acked.calls < MaxCalls
       /\ usage' = IF ok THEN DictSet(usage, UsageKey(TheTenant, TheSid), event) ELSE usage
       /\ pc' = [pc EXCEPT ![p] = IF ok THEN "record_usage_update" ELSE "idle"]
       /\ job' = [job EXCEPT ![p] = [tokens |-> input_tokens + 1]]
       /\ acked' = [acked EXCEPT !.calls = @ + 1]
       /\ UNCHANGED <<now, sessions, messages, cost_metrics, cacheVars, histVars, quotaVars, chatVars>>

RecordUsageUpdate(p) ==
  \E ok \in BOOLEAN :
    /\ pc[p] = "record_usage_update"
    /\ sessions' = IF ok
                   THEN DictSet(sessions, TheSession,
                          add_total_tokens(DictGet(sessions, TheSession, TheBase),
                                           job[p].tokens))
                   ELSE sessions
    /\ pc' = [pc EXCEPT ![p] = "idle"]
    /\ job' = [job EXCEPT ![p] = EmptyDict]
    /\ acked' = IF ok
                THEN [acked EXCEPT !.total_tokens = @ + job[p].tokens,
                                   !.overlap = @ \/ Busy(p)]
                ELSE acked
    /\ UNCHANGED <<now, messages, usage, cost_metrics, cacheVars, histVars, quotaVars, chatVars>>

InitCounters ==
  /\ now = 0
  /\ sessions = (TheSession :> NewSession(TheTenant, TheUser, TheSid, None))
  /\ messages = EmptyDict
  /\ usage = EmptyDict
  /\ cost_metrics = EmptyDict
  /\ session_cache = EmptyDict
  /\ cache_ttl = EmptyDict
  /\ lastCreate = None
  /\ deleted = {}
  /\ log = EmptyDict
  /\ obs = None
  /\ InitProcs
  /\ InitQuota
  /\ InitChat

AddMessagePutStep == \E p \in Procs : AddMessagePut(p)
AddMessageUpdateStep == \E p \in Procs : AddMessageUpdate(p)
RecordUsagePutStep == \E p \in Procs : RecordUsagePut(p)
RecordUsageUpdateStep == \E p \in Procs : RecordUsageUpdate(p)

NextCounters ==
  \/ AddMessagePutStep
  \/ AddMessageUpdateStep
  \/ RecordUsagePutStep
  \/ RecordUsageUpdateStep
  \/ Tick

SpecCounters == InitCounters /\ [][NextCounters]_vars

\* C5: under every interleaving of add_message and record_usage calls on an
\* existing session, the stored message_count is the number of add_message
\* counter updates the store acknowledged and the stored total_tokens is the
\* sum of the tokens of the acknowledged record_usage updates.
C5_CountersLinearizable ==
  /\ TheSession \in DOMAIN sessions
  /\ sessions[TheSession].message_count = acked.message_count
  /\ sessions[TheSession].total_tokens = acked.total_tokens

\* All calls have returned, updates of both kinds were acknowledged, and one
\* of them arrived while another call was between its two store writes.
C5_Witness ==
  /\ \A p \in Procs : pc[p] = "idle"
  /\ acked.overlap
  /\ acked.message_count >= 2
  /\ acked.total_tokens >= 2
  /\ acked.calls = MaxCalls

\* ------------------------------------------------------------ quota counters
SubKey(tenant_id, tier) == <<tenant_id, tier>>

SubscriptionUsageItem(tenant_id, tier, daily_usage, monthly_usage, active_sessions, last_reset_date) ==
  [PK |-> <<"SUB", tenant_id>>,
   SK |-> <<"SUB", tier, "current">>,
   tenant_id |-> tenant_id,
   tier |-> tier,
   daily_usage |-> daily_usage,
   monthly_usage |-> monthly_usage,
   active_sessions |-> active_sessions,
   last_reset_date |-> last_reset_date]

get_subscription_usage_no_item(tenant_id, tier, ok) == None

\* get_item; None both when there is no item and when the call raises.
get_subscription_usage(tenant_id, tier, ok) ==
  IF ok /\ SubKey(tenant_id, tier) \in DOMAIN sub
  THEN Some(serialize_item(sub[SubKey(tenant_id, tier)]))
  ELSE None

\* put_item of the whole row with the values the caller passes; a failure is
\* logged and nothing is raised or returned.
put_subscription_usage(tenant_id, tier, daily_usage, monthly_usage, active_sessions, last_reset_date, ok) ==
  sub' = IF ok
         THEN DictSet(sub, SubKey(tenant_id, tier),
                SubscriptionUsageItem(tenant_id, tier, daily_usage, monthly_usage,
                                      active_sessions, last_reset_date))
         ELSE sub

\* SubscriptionService (app/subscription_service.py): the tier table, the lazy
\* calendar reset and the limit check, over the two store functions above.
Tiers == {"basic", "advanced", "premium"}

TierLimits ==
  [basic    |-> [daily_limit |-> 20, monthly_limit |-> 40, max_concurrent_sessions |-> 1],
   advanced |-> [daily_limit |-> 30, monthly_limit |-> 60, max_concurrent_sessions |-> 2],
   premium  |-> [daily_limit |-> 50, monthly_limit |-> 90, max_concurrent_sessions |-> 3]]

\* The stored date's year-month prefix differs from today's.
month_differs(stored, current) == <<stored[1], stored[2]>> # <<current[1], current[2]>>

\* The counters as evaluated today: a missing row reads as zero usage, a row
\* of another day has its daily count reset, of another month its monthly
\* count too.
get_usage(row) ==
  IF row = None
  THEN [daily_usage |-> 0, monthly_usage |-> 0, active_sessions |-> 0,
        last_reset_date |-> today]
  ELSE LET r == row[1]
       IN IF r.last_reset_date = today
          THEN [daily_usage |-> r.daily_usage, monthly_usage |-> r.monthly_usage,
                active_sessions |-> r.active_sessions, last_reset_date |-> today]
          ELSE [daily_usage |-> 0,
                monthly_usage |-> IF month_differs(r.last_reset_date, today)
                                  THEN 0 ELSE r.monthly_usage,
                active_sessions |-> r.active_sessions,
                last_reset_date |-> today]

limit_exceeded_strict(used, limit) == used > limit

limit_exceeded(used, limit) == used >= limit

check_usage_limits_result(tenant_id, tier, ok) ==
  LET current == get_usage(get_subscription_usage(tenant_id, tier, ok))
      limits == TierLimits[tier]
  IN [daily_limit_exceeded |-> limit_exceeded(current.daily_usage, limits.daily_limit),
      monthly_limit_exceeded |-> limit_exceeded(current.monthly_usage, limits.monthly_limit),
      concurrent_sessions_exceeded |->
        limit_exceeded(current.active_sessions, limits.max_concurrent_sessions)]

\* check_usage_limits reads and compares; it writes nothing to the store.
\* A check that writes the evaluated counters back to the row it read.
check_usage_limits_resetting(tenant_id, tier, ok) ==
  LET current == get_usage(get_subscription_usage(tenant_id, tier, ok))
  IN /\ checked' = Some([tenant_id |-> tenant_id, tier |-> tier, ok |-> ok,
                         stored |-> IF SubKey(tenant_id, tier) \in DOMAIN sub
                                    THEN Some(sub[SubKey(tenant_id, tier)]) ELSE None,
                         today |-> today,
                         usage |-> current,
                         limits |-> check_usage_limits_result(tenant_id, tier, ok)])
     /\ put_subscription_usage(tenant_id, tier, current.daily_usage,
                               current.monthly_usage, current.active_sessions,
                               current.last_reset_date, TRUE)
     /\ UNCHANGED <<today, quota>>

check_usage_limits(tenant_id, tier, ok) ==
  /\ checked' = Some([tenant_id |-> tenant_id, tier |-> tier, ok |-> ok,
                      stored |-> IF SubKey(tenant_id, tier) \in DOMAIN sub
                                 THEN Some(sub[SubKey(tenant_id, tier)]) ELSE None,
                      today |-> today,
                      usage |-> get_usage(get_subscription_usage(tenant_id, tier, ok)),
                      limits |-> check_usage_limits_result(tenant_id, tier, ok)])
  /\ UNCHANGED <<today, sub, quota>>

\* increment_usage, first half: read the counters as evaluated today.
increment_usage_read(p, tenant_id, tier, ok) ==
  job' = [job EXCEPT ![p] =
            DictUpdate(job[p], [tenant_id |-> tenant_id, tier |-> tier,
                                usage |-> get_usage(get_subscription_usage(tenant_id, tier, ok))])]

\* increment_usage, second half: write the row back with both counts one up.
increment_usage_write(p, ok) ==
  LET current == job[p].usage
  IN put_subscription_usage(job[p].tenant_id, job[p].tier,
                            current.daily_usage + 1, current.monthly_usage + 1,
                            current.active_sessions, current.last_reset_date, ok)

NextDay ==
  /\ today # LastDate
  /\ today' = NextDate(today)
  /\ quota' = [quota EXCEPT !.rolled = TRUE]
  /\ UNCHANGED <<now, storeVars, cacheVars, histVars, procVars, sub, checked, chatVars>>

\* ------------------------------------------------------------ SpecCheck
\* Quota checks against a counter row last written on any date up to today,
\* with counts at, next to and away from the caps.
StoredRows(tenant_id) ==
  UNION {{SubscriptionUsageItem(tenant_id, tier, d, m, 0, date) :
            d \in {0, TierLimits[tier].daily_limit - 1, TierLimits[tier].daily_limit,
                   TierLimits[tier].daily_limit + 1},
            m \in {TierLimits[tier].daily_limit + 1, TierLimits[tier].monthly_limit - 1,
                   TierLimits[tier].monthly_limit},
            date \in {x \in Dates : DateLE(x, today)}} : tier \in Tiers}

InitCheck ==
  /\ InitLedger
  /\ InitProcs
  /\ InitChat
  /\ today \in Dates
  /\ sub \in {EmptyDict} \cup
             {(SubKey(r.tenant_id, r.tier) :> r) : r \in StoredRows(TheTenant)}
  /\ checked = None
  /\ quota = [base |-> 0, succeeded |-> 0, rolled |-> FALSE, over |-> FALSE]

CheckUsageLimits ==
  \E tier \in Tiers, ok \in BOOLEAN :
    /\ check_usage_limits(TheTenant, tier, ok)
    /\ UNCHANGED <<now, storeVars, cacheVars, histVars, procVars, chatVars>>

NextCheck ==
  \/ CheckUsageLimits
  \/ NextDay

SpecCheck == InitCheck /\ [][NextCheck]_vars

EarlierDay(d, current) == d # current /\ DateLE(d, current)
EarlierMonth(d, current) ==
  \/ d[1] < current[1]
  \/ d[1] = current[1] /\ d[2] < current[2]

C8_LimitBoundary ==
  checked # None =>
    LET c == checked[1]
        limits == TierLimits[c.tier]
    IN /\ c.limits.daily_limit_exceeded <=> c.usage.daily_usage >= limits.daily_limit
       /\ c.limits.monthly_limit_exceeded <=> c.usage.monthly_usage >= limits.monthly_limit
       /\ (c.ok /\ c.stored # None /\ c.stored[1].last_reset_date = c.today) =>
            /\ c.stored[1].daily_usage = limits.daily_limit
                 => c.limits.daily_limit_exceeded
            /\ c.stored[1].daily_usage = limits.daily_limit - 1
                 => ~c.limits.daily_limit_exceeded
            /\ c.stored[1].monthly_usage = limits.monthly_limit
                 => c.limits.monthly_limit_exceeded
            /\ c.stored[1].monthly_usage = limits.monthly_limit - 1
                 => ~c.limits.monthly_limit_exceeded

\* A check of a row of today whose daily count is exactly the limit.
C8_Witness ==
  /\ checked # None
  /\ checked[1].ok
  /\ checked[1].stored # None
  /\ checked[1].stored[1].last_reset_date = checked[1].today
  /\ checked[1].stored[1].daily_usage = TierLimits[checked[1].tier].daily_limit
  /\ checked[1].limits.daily_limit_exceeded

\* ------------------------------------------------------------ SpecQuota
\* Concurrent increment_usage calls on one (tenant, tier) row; every store
\* call succeeds.
TheTier == "basic"

InitQuotaRows ==
  /\ InitLedger
  /\ InitProcs
  /\ InitChat
  /\ today = FirstDate
  /\ checked = None
  /\ \E d \in {0, 5} :
       /\ sub = IF d = 0 THEN EmptyDict
                ELSE (SubKey(TheTenant, TheTier) :>
                        SubscriptionUsageItem(TheTenant, TheTier, d, d, 0, today))
       /\ quota = [base |-> d, succeeded |-> 0, rolled |-> FALSE, over |-> FALSE]

IncrementRead(p) ==
  /\ pc[p] = "idle"
  /\ acked.calls < MaxCalls
  /\ increment_usage_read(p, TheTenant, TheTier, TRUE)
  /\ pc' = [pc EXCEPT ![p] = "increment_usage_write"]
  /\ acked' = [acked EXCEPT !.calls = @ + 1]
  /\ UNCHANGED <<now, storeVars, cacheVars, histVars, quotaVars, chatVars>>

IncrementWrite(p) ==
  /\ pc[p] = "increment_usage_write"
  /\ increment_usage_write(p, TRUE)
  /\ quota' = [quota EXCEPT !.succeeded = @ + 1]
  /\ pc' = [pc EXCEPT ![p] = "idle"]
  /\ job' = [job EXCEPT ![p] = EmptyDict]
  /\ UNCHANGED <<now, storeVars, cacheVars, histVars, acked, today, checked, chatVars>>

IncrementReadStep == \E p \in Procs : IncrementRead(p)
IncrementWriteStep == \E p \in Procs : IncrementWrite(p)

NextQuota ==
  \/ IncrementReadStep
  \/ IncrementWriteStep
  \/ NextDay

SpecQuota == InitQuotaRows /\ [][NextQuota]_vars

DailyUsageOf(tenant_id, tier) ==
  IF SubKey(tenant_id, tier) \in DOMAIN sub
  THEN sub[SubKey(tenant_id, tier)].daily_usage ELSE 0

session_key(tenant_id, user_id, session_id) ==
  <<tenant_id, "-", user_id, "-", session_id>>

TenantSessionItem(tenant_id, user_id, session_id) ==
  [session_key |-> session_key(tenant_id, user_id, session_id),
   tenant_id |-> tenant_id,
   user_id |-> user_id,
   session_id |-> session_id,
   created_at |-> now,
   last_activity |-> now,
   message_count |-> 0]

\* get_item; any exception is swallowed and None returned.
store_get_session(tenant_id, user_id, session_id, ok) ==
  IF ok /\ session_key(tenant_id, user_id, session_id) \in DOMAIN tenant_sessions
  THEN Some(tenant_sessions[session_key(tenant_id, user_id, session_id)])
  ELSE None

\* update_item SET last_activity = :la, message_count = message_count + :inc;
\* the expression is invalid on an item without message_count, and nothing
\* catches the exception.
store_update_session_activity_ok(tenant_id, user_id, session_id, ok) ==
  ok /\ session_key(tenant_id, user_id, session_id) \in DOMAIN tenant_sessions

store_update_session_activity(tenant_id, user_id, session_id, ok) ==
  LET key == session_key(tenant_id, user_id, session_id)
  IN tenant_sessions' =
       IF store_update_session_activity_ok(tenant_id, user_id, session_id, ok)
       THEN DictSet(tenant_sessions, key,
              DictUpdate(tenant_sessions[key],
                         [last_activity |-> now,
                          message_count |-> tenant_sessions[key].message_count + 1]))
       ELSE tenant_sessions

UsageMetricItem(tenant_id, metric_type, value, session_id) ==
  [tenant_id |-> tenant_id,
   timestamp |-> NowMs,
   metric_type |-> metric_type,
   value |-> value,
   session_id |-> session_id,
   agent_id |-> "AGENT_ID"]

\* if not session: raise HTTPException(404)
session_found_always(session) == TRUE

session_found(session) == session # None

Finish(p) ==
  /\ pc' = [pc EXCEPT ![p] = "idle"]
  /\ job' = [job EXCEPT ![p] = EmptyDict]

Logged(p, facts, events, status) ==
  reqlog' = [reqlog EXCEPT ![p] = [facts |-> DictUpdate(@.facts, facts),
                                   events |-> @.events \cup events,
                                   status |-> status]]

\* Lines 46-60: the tenant and user of the message must be the authenticated
\* ones, then check_usage_limits and the two 429 answers.
ChatCheckLimits(p) ==
  \E tenant_id \in Tenants, user_id \in {TheUser, "u2"}, session_id \in {<<"s1">>, <<"s2">>} :
    LET ctx == [tenant_id |-> tenant_id, user_id |-> user_id, session_id |-> session_id]
        usage_limits == check_usage_limits_result(TheTenant, TheTier, TRUE)
        passed == ~usage_limits.daily_limit_exceeded /\ ~usage_limits.monthly_limit_exceeded
    IN /\ pc[p] = "idle"
       /\ reqlog[p].status = 0
       /\ IF tenant_id # TheTenant \/ user_id # TheUser
          THEN /\ Finish(p)
               /\ Logged(p, [identity |-> FALSE], {}, 403)
          ELSE IF usage_limits.daily_limit_exceeded \/ usage_limits.monthly_limit_exceeded
          THEN /\ Finish(p)
               /\ Logged(p, [identity |-> TRUE, limits |-> passed], {}, 429)
          ELSE /\ pc' = [pc EXCEPT ![p] = "get_session"]
               /\ job' = [job EXCEPT ![p] = [ctx |-> ctx]]
               /\ Logged(p, [identity |-> TRUE, limits |-> passed], {}, 0)
       /\ UNCHANGED <<now, storeVars, cacheVars, histVars, acked, quotaVars,
                      tenant_sessions, tenant_usage>>

\* Lines 63-71: the session lookup and the 404 answer.
ChatGetSession(p) ==
  \E ok \in BOOLEAN :
    LET ctx == job[p].ctx
        session == store_get_session(ctx.tenant_id, ctx.user_id, ctx.session_id, ok)
    IN /\ pc[p] = "get_session"
       /\ IF session_found(session)
          THEN /\ pc' = [pc EXCEPT ![p] = "invoke_agent"]
               /\ job' = job
               /\ Logged(p, [session |-> session # None], {}, 0)
          ELSE /\ Finish(p)
               /\ Logged(p, [session |-> session # None], {}, 404)
       /\ UNCHANGED <<now, storeVars, cacheVars, histVars, acked, quotaVars,
                      tenant_sessions, tenant_usage>>

\* Lines 74-76: the agent call; it returns a result, with or without a
\* trace_summary, or raises.
ChatInvokeAgent(p) ==
  \E outcome \in {"result", "result_with_trace", "raise"} :
    /\ pc[p] = "invoke_agent"
    /\ IF outcome = "raise"
       THEN /\ Finish(p)
            /\ Logged(p, EmptyDict, {"agent"}, 500)
       ELSE /\ pc' = [pc EXCEPT ![p] = "update_session_activity"]
            /\ job' = [job EXCEPT ![p] =
                         DictUpdate(@, [trace_summary |-> outcome = "result_with_trace"])]
            /\ Logged(p, EmptyDict, {"agent"}, 0)
    /\ UNCHANGED <<now, storeVars, cacheVars, histVars, acked, quotaVars,
                   tenant_sessions, tenant_usage>>

\* Lines 79-84.
ChatUpdateActivity(p) ==
  \E ok \in BOOLEAN :
    LET ctx == job[p].ctx
    IN /\ pc[p] = "update_session_activity"
       /\ store_update_session_activity(ctx.tenant_id, ctx.user_id, ctx.session_id, ok)
       /\ IF store_update_session_activity_ok(ctx.tenant_id, ctx.user_id, ctx.session_id, ok)
          THEN /\ pc' = [pc EXCEPT ![p] = "increment_usage_read"]
               /\ job' = job
               /\ Logged(p, EmptyDict, {"activity"}, 0)
          ELSE /\ Finish(p)
               /\ Logged(p, EmptyDict, {"activity"}, 500)
       /\ UNCHANGED <<now, storeVars, cacheVars, histVars, acked, quotaVars, tenant_usage>>

\* Line 87, increment_usage up to its read of the counters.
ChatIncrementRead(p) ==
  /\ pc[p] = "increment_usage_read"
  /\ increment_usage_read(p, TheTenant, TheTier, TRUE)
  /\ pc' = [pc EXCEPT ![p] = "increment_usage_write"]
  /\ Logged(p, EmptyDict, {"increment"}, 0)
  /\ quota' = [quota EXCEPT !.over =
                 @ \/ get_usage(get_subscription_usage(TheTenant, TheTier, TRUE)).daily_usage
                        >= TierLimits[TheTier].daily_limit]
  /\ UNCHANGED <<now, storeVars, cacheVars, histVars, acked, today, sub, checked,
                 tenant_sessions, tenant_usage>>

\* Line 87, increment_usage from its write on.
ChatIncrementWrite(p) ==
  /\ pc[p] = "increment_usage_write"
  /\ increment_usage_write(p, TRUE)
  /\ quota' = [quota EXCEPT !.succeeded = @ + 1]
  /\ pc' = [pc EXCEPT ![p] = "record_usage_metric"]
  /\ UNCHANGED <<now, storeVars, cacheVars, histVars, job, acked, today, checked, chatVars>>

\* Lines 89-118: the agent_invocation metric, the trace_analysis metric when
\* the result has a trace_summary, and the response; failAt names the put
\* that raises (0: none).
ChatRecordMetric(p) ==
  \E failAt \in 0..2 :
    LET ctx == job[p].ctx
        usage_metric == UsageMetricItem(ctx.tenant_id, "agent_invocation", 1, ctx.session_id)
        trace_metric == UsageMetricItem(ctx.tenant_id, "trace_analysis", 0, ctx.session_id)
        puts == IF job[p].trace_summary THEN 2 ELSE 1
    IN /\ pc[p] = "record_usage_metric"
       /\ failAt <= puts
       /\ tenant_usage' = tenant_usage
            \cup (IF failAt = 1 THEN {} ELSE {usage_metric})
            \cup (IF failAt = 0 /\ job[p].trace_summary THEN {trace_metric} ELSE {})
       /\ Finish(p)
       /\ Logged(p, EmptyDict, {"metric"}, IF failAt = 0 THEN 200 ELSE 500)
       /\ UNCHANGED <<now, storeVars, cacheVars, histVars, acked, quotaVars, tenant_sessions>>

\* ------------------------------------------------------------ SpecChat
\* Concurrent chat requests of one authenticated user (t1, u1, basic) whose
\* quota row of today is just below or at the daily cap; each caller sends
\* one request. The quota store calls succeed.
InitChatRows ==
  /\ InitLedger
  /\ InitProcs
  /\ today = FirstDate
  /\ checked = None
  /\ \E d \in {TierLimits[TheTier].daily_limit - 2, TierLimits[TheTier].daily_limit - 1,
               TierLimits[TheTier].daily_limit} :
       /\ sub = (SubKey(TheTenant, TheTier) :>
                   SubscriptionUsageItem(TheTenant, TheTier, d, d, 0, today))
       /\ quota = [base |-> d, succeeded |-> 0, rolled |-> FALSE, over |-> FALSE]
  /\ tenant_sessions = (session_key(TheTenant, TheUser, TheSid) :>
                          TenantSessionItem(TheTenant, TheUser, TheSid))
  /\ tenant_usage = {}
  /\ reqlog = [p \in Procs |-> NoRequest]

ChatCheckLimitsStep == \E p \in Procs : ChatCheckLimits(p)
ChatGetSessionStep == \E p \in Procs : ChatGetSession(p)
ChatInvokeAgentStep == \E p \in Procs : ChatInvokeAgent(p)
ChatUpdateActivityStep == \E p \in Procs : ChatUpdateActivity(p)
ChatIncrementReadStep == \E p \in Procs : ChatIncrementRead(p)
ChatIncrementWriteStep == \E p \in Procs : ChatIncrementWrite(p)
ChatRecordMetricStep == \E p \in Procs : ChatRecordMetric(p)

NextChat ==
  \/ ChatCheckLimitsStep
  \/ ChatGetSessionStep
  \/ ChatInvokeAgentStep
  \/ ChatUpdateActivityStep
  \/ ChatIncrementReadStep
  \/ ChatIncrementWriteStep
  \/ ChatRecordMetricStep

SpecChat == InitChatRows /\ [][NextChat]_vars

\* C9: with every chat request checking the limits before the agent call and
\* incrementing after it, increment_usage is never invoked when dailyUsage
\* has already reached the tier's daily limit, and within one day dailyUsage
\* never exceeds that limit.
C9_QuotaCapUnderGuard ==
  /\ ~quota.over
  /\ DailyUsageOf(TheTenant, TheTier) <= TierLimits[TheTier].daily_limit

Rejections == {403, 404, 429}

\* C10: a request reaches the agent only when the tenant/user match, the
\* limit checks and the session lookup have all passed; a request in which
\* one of them failed is rejected, and a rejected request has invoked no
\* agent, updated no session activity, incremented no usage and written no
\* usage metric.
C10_RejectionPrecedesAgent ==
  \A p \in Procs :
    LET r == reqlog[p]
        failed == \E f \in DOMAIN r.facts : ~r.facts[f]
    IN /\ "agent" \in r.events =>
            /\ DOMAIN r.facts = {"identity", "limits", "session"}
            /\ ~failed
       /\ failed => r.status \in Rejections
       /\ r.status \in Rejections => r.events = {}
       /\ r.events \ {"agent"} # {} => "agent" \in r.events

\* One request went through to its response while another one was rejected
\* at the limit check.
C10_Witness ==
  \E p, q \in Procs :
    /\ reqlog[p].status = 200
    /\ reqlog[p].events = {"agent", "activity", "increment", "metric"}
    /\ reqlog[q].status = 429
    /\ reqlog[q].events = {}

\* ------------------------------------------------------------ SpecUpdate
\* The caller of t1 creating, updating, appending to, metering, reading and
\* deleting its session s1, while a caller of t2 creates and reads a session
\* of the same id; the caller of t1 remembers its last successful title
\* update of the existing session until it writes the session again.
Deltas ==
  {EmptyDict,
   [title |-> "Renamed"],
   [message_count |-> 0, total_tokens |-> 0],
   [PK |-> SessionPK("t2", "u2"), SK |-> SessionSK(<<"s2">>), session_id |-> <<"s2">>,
    tenant_id |-> "t2", user_id |-> "u2", title |-> "Moved"]}

Forget(t) == IF t = TheTenant THEN None ELSE obs

CreateAgain ==
  \E t \in Tenants, ok \in BOOLEAN :
    /\ create_session(t, TheUser, TheSid, "", None, ok)
    /\ obs' = Forget(t)
    /\ UNCHANGED <<lastCreate, deleted, log, procVars, quotaVars, chatVars>>

UpdateWith ==
  \E t \in {TheTenant}, upd \in Deltas, ok \in BOOLEAN :
    /\ update_session(TheSid, t, TheUser, upd, ok)
    /\ obs' = IF t # TheTenant \/ DOMAIN upd = {}
                 \/ update_session_result(TheSid, t, TheUser, upd, ok) = None
              THEN obs
              ELSE IF "title" \in DOMAIN upd /\ TheSession \in DOMAIN sessions
              THEN Some([title |-> upd.title, until |-> now + CACHE_DURATION_SECONDS])
              ELSE None
    /\ UNCHANGED <<lastCreate, deleted, log, procVars, quotaVars, chatVars>>

GetAfterUpdate ==
  \E t \in Tenants, ok \in BOOLEAN :
    /\ get_session(TheSid, t, TheUser, ok)
    /\ UNCHANGED <<histVars, procVars, quotaVars, chatVars>>

DeleteOwn ==
  \E t \in {TheTenant}, failAt \in 0..3 :
    /\ delete_session(TheSid, t, TheUser, failAt,
                      IF failAt = 0 THEN MessagesOf(t, TheUser, TheSid) ELSE {})
    /\ obs' = Forget(t)
    /\ UNCHANGED <<lastCreate, deleted, log, procVars, quotaVars, chatVars>>

AppendOne ==
  \E failAt \in 0..2 :
    /\ Cardinality(DOMAIN messages) < MaxMsgs
    /\ DictGet(DictGet(sessions, TheSession, EmptyDict), "message_count", 0) < MaxMsgs
    /\ add_message(TheSid, "user", Text(<<"hi">>), TheTenant, TheUser, failAt)
    /\ UNCHANGED <<histVars, procVars, quotaVars, chatVars>>

RecordOne ==
  \E failAt \in 0..2 :
    /\ Cardinality(DOMAIN usage) < MaxMsgs
    /\ DictGet(DictGet(sessions, TheSession, EmptyDict), "total_tokens", 0) < MaxMsgs
    /\ record_usage(TheSid, TheTenant, TheUser, 2, 1, "m", 3, failAt)
    /\ UNCHANGED <<histVars, procVars, quotaVars, chatVars>>

NextUpdate ==
  \/ CreateAgain
  \/ UpdateWith
  \/ GetAfterUpdate
  \/ DeleteOwn
  \/ AppendOne
  \/ RecordOne
  \/ Tick

SpecUpdate == Init /\ [][NextUpdate]_vars

\* C11: after a successful update_session(s, t, u, {title: x}) of an existing
\* session, get_session(s, t, u) returns title = x for as long as the cache
\* entry the update wrote is valid and the caller has not written the
\* session again.
C11_WriteThroughOnUpdate ==
  (obs # None /\ now < obs[1].until) =>
    \A ok \in BOOLEAN :
      LET r == get_session_result(TheSid, TheTenant, TheUser, ok)
      IN r # None /\ r[1].title = obs[1].title

\* ------------------------------------------------------------ usage summary
RECURSIVE SumOf(_, _)
SumOf(items, attr) ==
  IF items = {} THEN 0
  ELSE LET k == CHOOSE x \in items : TRUE
       IN DictGet(usage[k], attr, 0) + SumOf(items \ {k}, attr)

\* get_usage_summary: the USAGE#<tenant> partition from SK >= USAGE#<start
\* date> on, summed.  cost_usd is held in integer minor units, whose sum the
\* float arithmetic and round(.., 4) of the code reproduce exactly.
get_usage_summary_result(tenant_id, days, ok) ==
  LET start_date == Date(now - days * SecondsPerDay)
      items == {k \in DOMAIN usage : k[1] = tenant_id /\ k[2] >= start_date}
      dates == {usage[k].date : k \in items}
      on(d) == {k \in items : usage[k].date = d}
  IN IF ok
     THEN [tenant_id |-> tenant_id,
           period_days |-> days,
           total_input_tokens |-> SumOf(items, "input_tokens"),
           total_output_tokens |-> SumOf(items, "output_tokens"),
           total_tokens |-> SumOf(items, "input_tokens") + SumOf(items, "output_tokens"),
           total_cost_usd |-> SumOf(items, "cost_usd"),
           total_requests |-> Cardinality(items),
           by_date |-> [d \in dates |->
                          [input_tokens |-> SumOf(on(d), "input_tokens"),
                           output_tokens |-> SumOf(on(d), "output_tokens"),
                           cost_usd |-> SumOf(on(d), "cost_usd"),
                           requests |-> Cardinality(on(d))]]]
     ELSE [tenant_id |-> tenant_id,
           period_days |-> days,
           total_input_tokens |-> 0,
           total_output_tokens |-> 0,
           total_tokens |-> 0,
           total_cost_usd |-> 0,
           total_requests |-> 0,
           by_date |-> EmptyDict,
           error |-> "error"]

\* ------------------------------------------------------------ SpecUsage
\* record_usage calls of two tenants on two sessions, several of them within
\* one millisecond; obs counts, per tenant, the usage events whose put_item
\* the store acknowledged and sums their costs.
SummaryDays == 30

InitUsage ==
  /\ InitLedger
  /\ InitProcs
  /\ InitQuota
  /\ InitChat

Recorded(t) == IF obs = None THEN [n |-> 0, cost |-> 0] ELSE obs[1][t]

RecordUsage ==
  \E t \in Tenants, s \in {<<"s1">>, <<"s2">>}, cost_usd \in 1..2, failAt \in 0..2 :
    /\ Recorded("t1").n + Recorded("t2").n < MaxCalls
    /\ record_usage(s, t, TheUser, 2, 1, "m", cost_usd, failAt)
    /\ obs' = IF failAt = 1 THEN obs
              ELSE Some([x \in Tenants |->
                           IF x = t THEN [n |-> Recorded(x).n + 1,
                                          cost |-> Recorded(x).cost + cost_usd]
                           ELSE Recorded(x)])
    /\ UNCHANGED <<lastCreate, deleted, log, procVars, quotaVars, chatVars>>

NextUsage ==
  \/ RecordUsage
  \/ Tick

SpecUsage == InitUsage /\ [][NextUsage]_vars

\* C12: for every tenant, get_usage_summary reports as total_requests the
\* number of that tenant's record_usage calls whose event the store
\* acknowledged within the window, and as total cost the sum of their costs.
C12_UsageSummaryTotals ==
  \A t \in Tenants :
    LET summary == get_usage_summary_result(t, SummaryDays, TRUE)
    IN /\ summary.total_requests = Recorded(t).n
       /\ summary.total_cost_usd = Recorded(t).cost

\* ------------------------------------------------------------ SpecUpdate, continued
Counter(item, attr) == DictGet(item, attr, 0)

\* A row that create_session wrote, as against one that an update_item on a
\* missing key left behind.
Created(item) == "created_at" \in DOMAIN item

\* C13: from a session's creation by create_session until its row is
\* deleted, no call lowers its stored message_count or total_tokens.
C13_MonotonicCounters ==
  [][\A key \in DOMAIN sessions \cap DOMAIN sessions' :
       Created(sessions[key]) =>
       /\ Counter(sessions'[key], "message_count") >= Counter(sessions[key], "message_count")
       /\ Counter(sessions'[key], "total_tokens") >= Counter(sessions[key], "total_tokens")]_vars

\* ------------------------------------------------------------ SpecIdentity
\* Updates of session rows of every shape: made by create_session, left behind
\* by add_message on a missing key, or made by update_session itself.
NextIdentity ==
  \/ CreateAgain
  \/ UpdateWith
  \/ AppendOne
  \/ DeleteOwn

SpecIdentity == Init /\ [][NextIdentity]_vars

\* C14: an update_session call, whatever its delta names, leaves PK, SK,
\* session_id, tenant_id and user_id of the stored row as they were: each is
\* present after the call exactly if it was before, with the same value.
C14_IdentityImmutable ==
  [][UpdateWith =>
       \A key \in DOMAIN sessions \cap DOMAIN sessions' :
         \A f \in IdentityFields :
           /\ f \in DOMAIN sessions'[key] <=> f \in DOMAIN sessions[key]
           /\ f \in DOMAIN sessions[key] => sessions'[key][f] = sessions[key][f]]_vars

\* The delta naming every identity field has been applied to t1's session:
\* its title is there, the row's identity is still t1's.
C14_Witness ==
  /\ TheSession \in DOMAIN sessions
  /\ DictGet(sessions[TheSession], "title", "") = "Moved"
  /\ DictGet(sessions[TheSession], "tenant_id", "") = TheTenant
  /\ sessions[TheSession].PK = SessionPK(TheTenant, TheUser)

\* ------------------------------------------------------------ SpecCreateFail
\* create_session with every kind of input and either outcome of its store
\* write; obs holds the call's arguments, the outcome of the write, the
\* record returned and the number of calls so far.
CreateObserved ==
  \E t \in Tenants, u \in Users, s \in GivenIds \cup {NoId}, r \in RandHex,
     title \in {None, Some("Plan")}, ok \in BOOLEAN :
    LET res == create_session_result(t, u, s, r, title)
        calls == IF obs = None THEN 0 ELSE obs[1].calls
    IN /\ calls < MaxRows
       /\ create_session(t, u, s, r, title, ok)
       /\ obs' = Some([tenant_id |-> t, user_id |-> u, session_id |-> s,
                       ok |-> ok, r |-> res, calls |-> calls + 1])
       /\ lastCreate' = None
       /\ UNCHANGED <<deleted, log, procVars, quotaVars, chatVars>>

NextCreateFail ==
  \/ CreateObserved
  \/ Tick

SpecCreateFail == Init /\ [][NextCreateFail]_vars

\* The session ids a call can carry: the given ones and those generated at
\* the times the clock takes.
PossibleIds ==
  GivenIds \cup {<<"s", k * TickStep * 1000, r>> :
                   k \in 0..(MaxTime \div TickStep), r \in RandHex}

\* C15: every create_session call returns a record with the requested
\* tenant, user and (when one was given) session id, message_count 0,
\* total_tokens 0 and status active; when its store write fails the store is
\* as before and get_session of that session, whether or not its own store
\* read works, returns the same record from the cache.
C15_CreateNeverFails ==
  [][CreateObserved =>
       LET o == obs'[1]
           r == o.r
       IN /\ r.tenant_id = o.tenant_id
          /\ r.user_id = o.user_id
          /\ o.session_id # NoId => r.session_id = o.session_id
          /\ r.message_count = 0
          /\ r.total_tokens = 0
          /\ r.status = "active"
          /\ ~o.ok =>
               /\ sessions' = sessions
               /\ \A t \in Tenants, u \in Users, s \in PossibleIds, read_ok \in BOOLEAN :
                    (t = o.tenant_id /\ u = o.user_id /\ s = r.session_id) =>
                      get_session_result(s, t, u, read_ok)' = Some(r)]_vars

\* A create_session without a session id whose store write failed: the store
\* has no such row and the cache holds the record returned.
C15_Witness ==
  /\ obs # None
  /\ "ok" \in DOMAIN obs[1]
  /\ ~obs[1].ok
  /\ obs[1].session_id = NoId
  /\ SessionKey(obs[1].tenant_id, obs[1].user_id, obs[1].r.session_id) \notin DOMAIN sessions
  /\ DictGet(session_cache, obs[1].r.session_id, None) = obs[1].r

\* C16: the cache is never the only record of a mutation: in every reachable
\* state each session snapshot held in the cache belongs to a session row
\* whose write the store acknowledged. SpecCreateFail never deletes, so the
\* acknowledged rows are exactly the rows of the sessions table.
C16_CacheBackedByStore ==
  \A session_id \in DOMAIN session_cache :
    \E key \in DOMAIN sessions : key[3] = session_id

\* ------------------------------------------------------------ SpecExpiry
\* One session id, created (the write may fail), appended to (add_message
\* changes the row and leaves the cache alone, so row and snapshot differ),
\* read by both tenants, while the clock runs past the cache lifetime.  obs
\* holds the last read: its arguments, whether the cache held an expired
\* entry when it was called, and what it returned.
CreateCached ==
  \E ok \in BOOLEAN :
    /\ create_session(TheTenant, TheUser, TheSid, "", None, ok)
    /\ obs' = None
    /\ UNCHANGED <<lastCreate, deleted, log, procVars, quotaVars, chatVars>>

GetObserved ==
  \E t \in Tenants, ok \in BOOLEAN :
    /\ get_session(TheSid, t, TheUser, ok)
    /\ obs' = Some([tenant_id |-> t, ok |-> ok,
                    expired |-> /\ TheSid \in DOMAIN cache_ttl
                                /\ now >= cache_ttl[TheSid],
                    r |-> get_session_result(TheSid, t, TheUser, ok)])
    /\ UNCHANGED <<lastCreate, deleted, log, procVars, quotaVars, chatVars>>

NextExpiry == CreateCached \/ AppendOne \/ GetObserved \/ Tick

SpecExpiry == Init /\ [][NextExpiry]_vars

\* C17: a read of a session whose cache entry has not expired (now < expiry)
\* returns the cached snapshot whatever the store holds or answers and leaves
\* the cache alone; a read that finds no entry or an expired one and reaches
\* the store returns what the store holds, and a row found replaces the entry
\* with the row and the expiry now + CACHE_DURATION_SECONDS.  Every expiry
\* written, by any operation, is the time of the put plus the lifetime.
C17_CacheExpiry ==
  [][/\ \A session_id \in DOMAIN cache_ttl' :
          (\/ session_id \notin DOMAIN cache_ttl
           \/ cache_ttl'[session_id] # cache_ttl[session_id])
          => cache_ttl'[session_id] = now + CACHE_DURATION_SECONDS
     /\ GetObserved =>
          LET o == obs'[1]
              key == SessionKey(o.tenant_id, TheUser, TheSid)
          IN IF TheSid \in DOMAIN cache_ttl /\ now < cache_ttl[TheSid]
             THEN /\ o.r = Some(serialize_item(session_cache[TheSid]))
                  /\ UNCHANGED cacheVars
             ELSE o.ok =>
                    IF key \in DOMAIN sessions
                    THEN /\ o.r = Some(serialize_item(sessions[key]))
                         /\ session_cache'[TheSid] = sessions[key]
                         /\ cache_ttl'[TheSid] = now + CACHE_DURATION_SECONDS
                    ELSE o.r = None /\ UNCHANGED cacheVars]_vars

\* An expired entry whose row had changed was read and replaced.
C17_Witness ==
  /\ obs # None
  /\ "expired" \in DOMAIN obs[1]
  /\ obs[1].expired /\ obs[1].ok /\ obs[1].r # None
  /\ obs[1].r[1].message_count > 0
  /\ TheSid \in DOMAIN cache_ttl
  /\ cache_ttl[TheSid] = now + CACHE_DURATION_SECONDS
  /\ session_cache[TheSid].message_count > 0

\* C18: when get_session reaches the store (no unexpired cache entry) and the
\* read fails, the call returns normally: the cached snapshot of that id if
\* the cache still holds one, not-found otherwise; cache and store are left
\* as they were.
C18_ReadDegradation ==
  [][(/\ GetObserved
      /\ ~obs'[1].ok
      /\ ~(TheSid \in DOMAIN cache_ttl /\ now < cache_ttl[TheSid]))
     => /\ obs'[1].r = IF TheSid \in DOMAIN session_cache
                       THEN Some(serialize_item(session_cache[TheSid]))
                       ELSE None
        /\ UNCHANGED <<storeVars, cacheVars>>]_vars

\* A failed read fell back to an expired snapshot while the row had moved on.
C18_Witness ==
  /\ obs # None
  /\ "expired" \in DOMAIN obs[1]
  /\ obs[1].expired /\ ~obs[1].ok /\ obs[1].r # None
  /\ obs[1].r[1].message_count = 0
  /\ TheSession \in DOMAIN sessions
  /\ DictGet(sessions[TheSession], "message_count", 0) > 0

\* ------------------------------------------------------------ SpecDelete
\* One session, created, appended to and deleted; each step of the delete
\* (the row's delete_item, the message query, the batch delete) may fail.
\* obs holds the last delete: where it failed and what it reported.
DeleteObserved ==
  \E failAt \in 0..3 :
    \E gone \in SUBSET MessagesOf(TheTenant, TheUser, TheSid) :
      /\ delete_session(TheSid, TheTenant, TheUser, failAt, gone)
      /\ obs' = Some([failAt |-> failAt, r |-> delete_session_result(failAt)])
      /\ UNCHANGED <<lastCreate, deleted, log, procVars, quotaVars, chatVars>>

NextDelete == CreateCached \/ AppendOne \/ DeleteObserved \/ Tick

SpecDelete == Init /\ [][NextDelete]_vars

\* C19: a delete_session whose row delete succeeded and whose message query
\* or batch delete then failed reports success, and a get_session of the
\* same session right after it finds nothing, whether or not the store
\* answers that read.
C19_PartialDeleteSucceeds ==
  [][(/\ TheSession \in DOMAIN sessions
      /\ DeleteObserved
      /\ obs'[1].failAt \in {2, 3})
     => /\ obs'[1].r = TRUE
        /\ \A ok \in BOOLEAN :
             get_session_result(TheSid, TheTenant, TheUser, ok)' = None]_vars

\* ------------------------------------------------------------ SpecQuotaWrite
\* Writes of quota counter rows, each of which the store may refuse, as the
\* days go by.  obs holds the last call: whether the store acknowledged the
\* write and whether the call raised.

\* put_subscription_usage: whether an exception leaves the function.  The
\* except branch logs the error and falls off the end of the function.
put_subscription_usage_raises(ok) == FALSE

PutObserved ==
  \E tier \in {TheTier}, daily_usage \in {0, MaxCalls}, ok \in BOOLEAN :
    /\ put_subscription_usage(TheTenant, tier, daily_usage, daily_usage, 0, today, ok)
    /\ obs' = Some([acknowledged |-> ok,
                    raised |-> put_subscription_usage_raises(ok)])
    /\ UNCHANGED <<now, storeVars, cacheVars, lastCreate, deleted, log,
                   procVars, today, checked, quota, chatVars>>

NextQuotaWrite == PutObserved \/ NextDay

SpecQuotaWrite == Init /\ [][NextQuotaWrite]_vars

\* C20: a write of a quota counter row that the store did not acknowledge
\* ends in an error for the caller: no call returns normally after a failed
\* write.
C20_QuotaWriteFailurePropagates ==
  (obs # None /\ ~obs[1].acknowledged) => obs[1].raised

\* C21: reading the quota counter of a (tenant, tier) that has no row and
\* reading it while the store read fails give outcomes a caller can tell
\* apart.
C21_QuotaReadDistinguishesError ==
  \A tier \in Tiers :
    SubKey(TheTenant, tier) \notin DOMAIN sub
      => get_subscription_usage(TheTenant, tier, FALSE)
           # get_subscription_usage(TheTenant, tier, TRUE)

\* ------------------------------------------------------------ cost metrics
CostKey(tenant_id) == <<tenant_id, Date(now), NowMs>>

\* store_cost_metric: one COST# row per call, keyed by date and millisecond;
\* a failed put_item is logged and the call returns.
store_cost_metric(tenant_id, user_id, session_id, metric_type, value, metadata, ok) ==
  LET item == DictUpdate([PK |-> <<"COST", tenant_id>>,
                          SK |-> <<"COST", Date(now), NowMs>>,
                          tenant_id |-> tenant_id,
                          user_id |-> user_id,
                          session_id |-> session_id,
                          metric_type |-> metric_type,
                          value |-> value,
                          timestamp |-> now,
                          created_at |-> now],
                         metadata)
  IN /\ cost_metrics' = IF ok THEN DictSet(cost_metrics, CostKey(tenant_id), item)
                        ELSE cost_metrics
     /\ UNCHANGED <<now, sessions, messages, usage, cacheVars>>

\* ------------------------------------------------------------ SpecEvents
\* Usage and cost events of one tenant, written for two sessions and two
\* users while the clock runs; obs counts the calls made.
Calls == IF obs = None THEN 0 ELSE obs[1].calls

RecordEvent ==
  \E s \in {<<"s1">>, <<"s2">>}, u \in Users, cost_usd \in 1..2, failAt \in 0..2 :
    /\ Calls < MaxCalls
    /\ record_usage(s, TheTenant, u, 2, 1, "m", cost_usd, failAt)
    /\ obs' = Some([calls |-> Calls + 1])
    /\ UNCHANGED <<lastCreate, deleted, log, procVars, quotaVars, chatVars>>

StoreCost ==
  \E s \in {<<"s1">>, <<"s2">>}, u \in Users, value \in 1..2, ok \in BOOLEAN :
    /\ Calls < MaxCalls
    /\ store_cost_metric(TheTenant, u, s, "tokens", value, EmptyDict, ok)
    /\ obs' = Some([calls |-> Calls + 1])
    /\ UNCHANGED <<lastCreate, deleted, log, procVars, quotaVars, chatVars>>

NextEvents == RecordEvent \/ StoreCost \/ Tick

SpecEvents == Init /\ [][NextEvents]_vars

\* C22: an event row written by record_usage or store_cost_metric is never
\* modified or replaced by a later operation; the event rows only grow.
C22_EventsImmutable ==
  [][/\ \A k \in DOMAIN usage : k \in DOMAIN usage' /\ usage'[k] = usage[k]
     /\ \A k \in DOMAIN cost_metrics :
          k \in DOMAIN cost_metrics' /\ cost_metrics'[k] = cost_metrics[k]]_vars

\* ------------------------------------------------------------ SpecPages
\* Two sessions of one (tenant, user) partition, written with explicit ids,
\* receive messages while the clock runs; obs counts the calls made.
PageIds == {<<"s1">>, <<"s2">>}

\* Text order of the session ids above, as they stand in a sort key.
SidRank(session_id) == IF session_id = <<"s1">> THEN 1 ELSE 2

\* Text order of "MSG#<session id>#<message id>" against
\* "MSG#<session id>#<before>".
MsgSKBefore(m, session_id, before) ==
  \/ SidRank(m[3]) < SidRank(session_id)
  \/ /\ m[3] = session_id
     /\ (m[4] < before[1] \/ (m[4] = before[1] /\ m[5] < before[2]))

MsgSKLess(a, b) == MsgSKBefore(a, b[3], <<b[4], b[5]>>)

RECURSIVE SortByMsgSK(_)
SortByMsgSK(S) ==
  IF S = {} THEN <<>>
  ELSE LET m == CHOOSE x \in S : \A y \in S \ {x} : MsgSKLess(x, y)
       IN <<m>> \o SortByMsgSK(S \ {m})

\* get_messages with a cursor: the key condition is PK = :pk AND SK < :before
\* (the begins_with condition is replaced), ascending, at most `limit` items.
get_messages_before_result(session_id, tenant_id, user_id, limit, before, ok) ==
  IF ~ok THEN <<>>
  ELSE LET items == {m \in DOMAIN messages :
                       /\ m[1] = tenant_id /\ m[2] = user_id
                       /\ MsgSKBefore(m, session_id, before)}
           keys == Take(SortByMsgSK(items), limit)
           parse(msg) == IF DictGet(msg, "content_type", None) = "list"
                         THEN [msg EXCEPT !.content = json_loads(msg.content)]
                         ELSE msg
       IN [i \in 1..Len(keys) |-> parse(serialize_item(messages[keys[i]]))]

AppendTo ==
  \E s \in PageIds, content \in Contents, failAt \in 0..2 :
    /\ Calls < MaxCalls
    /\ add_message(s, "user", content, TheTenant, TheUser, failAt)
    /\ obs' = Some([calls |-> Calls + 1])
    /\ UNCHANGED <<lastCreate, deleted, log, procVars, quotaVars, chatVars>>

NextPages == AppendTo \/ Tick

SpecPages == Init /\ [][NextPages]_vars

Cursors == {<<k * TickStep * 1000, h>> :
              k \in 0..(MaxTime \div TickStep) + 1,
              h \in {md5_hex8(c) : c \in Contents}}

MessageIdLess(a, b) == a[1] < b[1] \/ (a[1] = b[1] /\ a[2] < b[2])

\* C23: for every session s of (t, u), cursor c and limit, get_messages with
\* before = c returns only messages of session s whose message id sorts
\* strictly before c, in ascending order; no message of another session of the
\* same partition is returned.
C23_CursorStaysInSession ==
  \A s \in PageIds, c \in Cursors, limit \in 1..MaxCalls :
    LET r == get_messages_before_result(s, TheTenant, TheUser, limit, c, TRUE)
    IN /\ \A i \in 1..Len(r) :
            r[i].session_id = s /\ MessageIdLess(r[i].message_id, c)
       /\ \A i \in 1..(Len(r) - 1) :
            MessageIdLess(r[i].message_id, r[i + 1].message_id)

\* ------------------------------------------------------------ SpecList
\* Sessions of two tenants, created with explicit and with generated ids and
\* archived by update_session, while the clock runs; obs counts the calls.

\* Text order of two session ids as they stand in "SESSION#<session id>":
\* a generated id "s-<ms>-<hex>" sorts below the explicit ids "s1" and "s2",
\* generated ids sort by their timestamps (of equal length) and then by the
\* random part, of which the model has one.
SessionIdLess(a, b) ==
  IF Len(a) = 3 /\ Len(b) = 3 THEN a[2] < b[2]
  ELSE IF Len(a) = 3 THEN Len(b) = 1
  ELSE IF Len(b) = 3 THEN FALSE
  ELSE SidRank(a) < SidRank(b)

RECURSIVE SortDescending(_)
SortDescending(S) ==
  IF S = {} THEN <<>>
  ELSE LET m == CHOOSE x \in S : \A y \in S \ {x} : SessionIdLess(y[3], x[3])
       IN <<m>> \o SortDescending(S \ {m})

\* list_sessions: the SESSION#-prefix query of the (tenant, user) partition in
\* descending sort-key order; the store reads at most `limit` rows and applies
\* the status filter to the rows read.
list_sessions_result(tenant_id, user_id, limit, status, ok) ==
  IF ~ok THEN <<>>
  ELSE LET keys == {k \in DOMAIN sessions : k[1] = tenant_id /\ k[2] = user_id}
           read == Take(SortDescending(keys), limit)
           kept == SelectSeq(read, LAMBDA k :
                     status = None \/ DictGet(sessions[k], "status", None) = status[1])
       IN [i \in 1..Len(kept) |-> serialize_item(sessions[kept[i]])]

CreateListed ==
  \E t \in Tenants, s \in PageIds \cup {NoId}, ok \in BOOLEAN :
    /\ Calls < MaxCalls
    /\ create_session(t, TheUser, s, "0a1b2c3d", None, ok)
    /\ obs' = Some([calls |-> Calls + 1])
    /\ UNCHANGED <<lastCreate, deleted, log, procVars, quotaVars, chatVars>>

Archive ==
  \E s \in PageIds :
    /\ Calls < MaxCalls
    /\ SessionKey(TheTenant, TheUser, s) \in DOMAIN sessions
    /\ update_session(s, TheTenant, TheUser, [status |-> "archived"], TRUE)
    /\ obs' = Some([calls |-> Calls + 1])
    /\ UNCHANGED <<lastCreate, deleted, log, procVars, quotaVars, chatVars>>

NextList == CreateListed \/ Archive \/ Tick

SpecList == Init /\ [][NextList]_vars

\* C24: list_sessions(t, u, limit, status) returns at most `limit` sessions,
\* all of (t, u), all with the requested status when one is given, ordered
\* newest-created first, whether their ids were generated or supplied by the
\* caller.
C24_ListNewestFirst ==
  \A t \in Tenants, limit \in 1..MaxCalls,
     status \in {None, Some("active"), Some("archived")} :
    LET r == list_sessions_result(t, TheUser, limit, status, TRUE)
    IN /\ Len(r) <= limit
       /\ \A i \in 1..Len(r) :
            /\ r[i].tenant_id = t /\ r[i].user_id = TheUser
            /\ status # None => r[i].status = status[1]
       /\ \A i \in 1..(Len(r) - 1) : r[i].created_at >= r[i + 1].created_at

\* ------------------------------------------------------------ SpecContent
\* Appends of texts and of lists of content blocks to one session, among them
\* a text that reads as the JSON of a list and a text that reads as the str()
\* of one.  obs holds the last append: its content, the message id it was
\* given and whether the store took the message.
RoundTripContents ==
  {Text(<<"hi">>), Text(<<"[", "a", "]">>), Text(<<"['a']">>),
   Blocks(<<"a">>), Blocks(<<"b", "a">>)}

AppendContent ==
  \E content \in RoundTripContents, failAt \in 0..2 :
    /\ Calls < MaxCalls
    /\ add_message(TheSid, "user", content, TheTenant, TheUser, failAt)
    /\ obs' = Some([calls |-> Calls + 1, content |-> content,
                    message_id |-> message_id(content), stored |-> failAt # 1])
    /\ UNCHANGED <<lastCreate, deleted, log, procVars, quotaVars, chatVars>>

NextContent == AppendContent \/ Tick

SpecContent == Init /\ [][NextContent]_vars

C26_CheckIsReadOnly ==
  checked # None =>
    LET c == checked[1]
        key == SubKey(c.tenant_id, c.tier)
    IN IF c.stored = None THEN key \notin DOMAIN sub
       ELSE key \in DOMAIN sub /\ sub[key] = c.stored[1]

\* A check has evaluated a row of an earlier month as zero usage, and the row
\* still holds the old counts and date.
C26_Witness ==
  /\ checked # None
  /\ checked[1].ok
  /\ checked[1].stored # None
  /\ EarlierMonth(checked[1].stored[1].last_reset_date, checked[1].today)
  /\ checked[1].usage.daily_usage = 0
  /\ checked[1].stored[1].daily_usage > 0
  /\ sub[SubKey(checked[1].tenant_id, checked[1].tier)] = checked[1].stored[1]

MonthlyUsageOf(tenant_id, tier) ==
  IF SubKey(tenant_id, tier) \in DOMAIN sub
  THEN sub[SubKey(tenant_id, tier)].monthly_usage ELSE 0

\* In the chat handler increment_usage is invoked at most once per request,
\* and only in a request whose agent call has returned.
IncrementOnceAfterAgent ==
  /\ \A p \in Procs :
       /\ "increment" \in reqlog[p].events => "agent" \in reqlog[p].events
       /\ pc[p] \in {"increment_usage_read", "increment_usage_write"}
            => "agent" \in reqlog[p].events
  /\ quota.succeeded =
       Cardinality({p \in Procs : /\ "increment" \in reqlog[p].events
                                  /\ pc[p] # "increment_usage_write"})

\* A step of a request other than the write of increment_usage, the failing
\* agent call among them, changes neither counter.
OnlyIncrementChangesCounters ==
  (\A p \in Procs : ~ChatIncrementWrite(p)) => sub' = sub

\* Each invocation of increment_usage raises both counters by exactly 1.
IncrementRaisesByOne ==
  \A p \in Procs :
    ChatIncrementWrite(p) =>
      /\ DailyUsageOf(TheTenant, TheTier)' = DailyUsageOf(TheTenant, TheTier) + 1
      /\ MonthlyUsageOf(TheTenant, TheTier)' = MonthlyUsageOf(TheTenant, TheTier) + 1

OrdHash == 35
OrdTilde == 126

\* "USAGE#<start>" <= "USAGE#<date>#<session>#<ms>", dates being of one width:
\* a key of the start date has the bound as a proper prefix.
usage_sk_from(date, start) == start <= date

\* A range whose upper bound is "USAGE#<end>" alone.
usage_sk_upto_bare(date, end) == date < end

\* "USAGE#<date>#<session>#<ms>" <= "USAGE#<end>~"
usage_sk_upto(date, end) == date < end \/ (date = end /\ OrdHash <= OrdTilde)

UsageSKLess(a, b) ==
  \/ a[2] < b[2]
  \/ a[2] = b[2] /\ SidRank(a[3]) < SidRank(b[3])
  \/ a[2] = b[2] /\ a[3] = b[3] /\ a[4] < b[4]

RECURSIVE SortByUsageSK(_)
SortByUsageSK(S) ==
  IF S = {} THEN <<>>
  ELSE LET m == CHOOSE x \in S : \A y \in S \ {x} : UsageSKLess(x, y)
       IN <<m>> \o SortByUsageSK(S \ {m})

\* get_usage_metrics: PK = USAGE#<tenant> AND SK BETWEEN the two bounds built
\* from the dates of start_date and end_date; [] when the query fails.
get_usage_metrics_result(tenant_id, start_date, end_date, ok) ==
  IF ~ok THEN <<>>
  ELSE LET keys == SortByUsageSK({k \in DOMAIN usage :
                     /\ k[1] = tenant_id
                     /\ usage_sk_from(k[2], Date(start_date))
                     /\ usage_sk_upto(k[2], Date(end_date))})
       IN [i \in 1..Len(keys) |-> serialize_item(usage[keys[i]])]

\* ------------------------------------------------------------ SpecRange
\* Usage events of two tenants written over several days; obs counts the
\* calls made.
MaxDay == 2

Midnight ==
  /\ Date(now) < MaxDay
  /\ now' = (Date(now) + 1) * SecondsPerDay
  /\ UNCHANGED <<storeVars, cacheVars, histVars, procVars, quotaVars, chatVars>>

RecordDated ==
  \E t \in Tenants, failAt \in 0..2 :
    /\ Calls < MaxCalls
    /\ record_usage(TheSid, t, TheUser, 2, 1, "m", 1, failAt)
    /\ obs' = Some([calls |-> Calls + 1])
    /\ UNCHANGED <<lastCreate, deleted, log, procVars, quotaVars, chatVars>>

NextRange == RecordDated \/ Midnight \/ Tick

SpecRange == Init /\ [][NextRange]_vars

\* Datetimes at the start of each day, and one at the end of the first.
RangeTimes == {d * SecondsPerDay : d \in 0..MaxDay} \cup {SecondsPerDay - 1}

EventsInRange(tenant_id, start, end) ==
  {k \in DOMAIN usage :
     /\ usage[k].tenant_id = tenant_id
     /\ Date(start) <= usage[k].date
     /\ usage[k].date <= Date(end)}

RECURSIVE SumCost(_)
SumCost(events) ==
  IF events = <<>> THEN 0
  ELSE DictGet(Head(events), "cost_usd", 0) + SumCost(Tail(events))

\* The group of an event in a dimension: a missing or empty value is the
\* group "unknown".
GroupOf(event, dimension) ==
  IF dimension \notin DOMAIN event \/ event[dimension] = ""
  THEN "unknown" ELSE event[dimension]

\* A grouping that has no group for an event without the dimension.
GroupsDroppingUnknown(events, dimension) ==
  {events[i][dimension] : i \in {j \in 1..Len(events) :
      dimension \in DOMAIN events[j] /\ events[j][dimension] # ""}}

Groups(events, dimension) ==
  {GroupOf(events[i], dimension) : i \in 1..Len(events)}

GroupCosts(events, dimension) ==
  [g \in Groups(events, dimension) |->
     SumCost(SelectSeq(events, LAMBDA e : GroupOf(e, dimension) = g))]

tenant_overall_cost(tenant_id, start_date, end_date) ==
  SumCost(get_usage_metrics_result(tenant_id, start_date, end_date, TRUE))

per_user_cost(tenant_id, start_date, end_date) ==
  GroupCosts(get_usage_metrics_result(tenant_id, start_date, end_date, TRUE), "user_id")

service_wise_cost(tenant_id, start_date, end_date) ==
  GroupCosts(get_usage_metrics_result(tenant_id, start_date, end_date, TRUE), "model")

RECURSIVE SumGroups(_, _)
SumGroups(costs, groups) ==
  IF groups = {} THEN 0
  ELSE LET g == CHOOSE x \in groups : TRUE
       IN costs[g] + SumGroups(costs, groups \ {g})

\* ------------------------------------------------------------ SpecAggregate
\* Usage events of one tenant over several days, some written without a user
\* or without a model; obs counts the calls made.
RecordCosted ==
  \E u \in {TheUser, ""}, model \in {"m", ""}, cost_usd \in 1..2 :
    /\ Calls < MaxCalls
    /\ record_usage(TheSid, TheTenant, u, 2, 1, model, cost_usd, 0)
    /\ obs' = Some([calls |-> Calls + 1])
    /\ UNCHANGED <<lastCreate, deleted, log, procVars, quotaVars, chatVars>>

NextAggregate == RecordCosted \/ Midnight

SpecAggregate == Init /\ [][NextAggregate]_vars

\* C29: for every tenant and date range the costs of the per-user groups, and
\* those of the per-service groups, add up to the tenant's overall cost of
\* the range; an event without a user or without a model is counted in the
\* group "unknown".
C29_AggregationDropsNoRecord ==
  \A start \in RangeTimes, end \in RangeTimes :
    LET overall == tenant_overall_cost(TheTenant, start, end)
        users == per_user_cost(TheTenant, start, end)
        services == service_wise_cost(TheTenant, start, end)
        events == get_usage_metrics_result(TheTenant, start, end, TRUE)
    IN /\ SumGroups(users, DOMAIN users) = overall
       /\ SumGroups(services, DOMAIN services) = overall
       /\ \A i \in 1..Len(events) :
            /\ events[i].user_id = "" => "unknown" \in DOMAIN users
            /\ events[i].model = "" => "unknown" \in DOMAIN services

\* Events with and without a user lie in the range, and the group "unknown"
\* holds part of the overall cost.
C29_Witness ==
  LET users == per_user_cost(TheTenant, 0, SecondsPerDay)
  IN /\ DOMAIN users = {TheUser, "unknown"}
     /\ users["unknown"] > 0
     /\ users[TheUser] > 0
     /\ tenant_overall_cost(TheTenant, 0, SecondsPerDay) = users["unknown"] + users[TheUser]

\* C30: in every state, those between the two store writes of add_message and
\* those after a failed counter update included, the stored message_count of
\* a session is at most the number of message rows stored for it (no message
\* is deleted in SpecCounters); a failed message write increments nothing.
C30_CountNeverExceedsRows ==
  \A key \in DOMAIN sessions :
    DictGet(sessions[key], "message_count", 0)
      <= Cardinality(MessagesOf(key[1], key[2], key[3]))

\* ------------------------------------------------------------ SpecIsolated
\* Usage recorded for one session whose store writes may fail, between
\* appends and reads.  obs holds the last record_usage call: the store call
\* that failed, whether the handler raised, and the message rows and the
\* session counters before and after it.
record_usage_raises(failAt) == FALSE

CountersOf(rows, key) ==
  [message_count |-> DictGet(DictGet(rows, key, EmptyDict), "message_count", 0),
   total_tokens |-> DictGet(DictGet(rows, key, EmptyDict), "total_tokens", 0)]

RecordObserved ==
  \E failAt \in 0..2 :
    /\ Calls < MaxCalls
    /\ record_usage(TheSid, TheTenant, TheUser, 2, 1, "m", 3, failAt)
    /\ obs' = Some([calls |-> Calls + 1,
                    failAt |-> failAt,
                    raised |-> record_usage_raises(failAt),
                    before |-> [messages |-> messages,
                                counters |-> CountersOf(sessions, TheSession)],
                    after |-> [messages |-> messages',
                               counters |-> CountersOf(sessions', TheSession)]])
    /\ UNCHANGED <<lastCreate, deleted, log, procVars, quotaVars, chatVars>>

CreateOwn ==
  \E ok \in BOOLEAN :
    /\ create_session(TheTenant, TheUser, TheSid, "", None, ok)
    /\ UNCHANGED <<histVars, procVars, quotaVars, chatVars>>

NextIsolated == CreateOwn \/ AppendOne \/ RecordObserved \/ Tick

SpecIsolated == Init /\ [][NextIsolated]_vars

\* C31: a record_usage call one of whose store writes failed returned without
\* raising and left every message row and the session's message_count as they
\* were; when the failed write was the event write, total_tokens is unchanged
\* as well.
C31_UsageFailureIsolated ==
  (obs # None /\ obs[1].failAt # 0) =>
    /\ ~obs[1].raised
    /\ obs[1].after.messages = obs[1].before.messages
    /\ obs[1].after.counters.message_count = obs[1].before.counters.message_count
    /\ (obs[1].failAt = 1 =>
          obs[1].after.counters.total_tokens = obs[1].before.counters.total_tokens)

C31_Witness ==
  /\ obs # None
  /\ obs[1].failAt = 1
  /\ obs[1].before.messages # EmptyDict
  /\ obs[1].before.counters.message_count > 0
  /\ obs[1].before.counters.total_tokens > 0

\* ------------------------------------------------------------ SpecCache
\* Concurrent get_session, create_session, update_session and delete_session
\* calls on one session id, by threads that share the two cache dicts.  A
\* step is one store call or one statement on a cache dict: the membership
\* test and the subscript of _is_cache_valid, the subscript of line 153, the
\* two assignments of _update_cache, the two pops of _invalidate_cache.  A
\* subscript of an absent key raises KeyError, which no handler catches: the
\* call ends there (pc "KeyError").  job holds the item a call is about to
\* cache.
Titles == {"A", "B"}

StartCall(p, next, item) ==
  /\ pc[p] = "idle"
  /\ acked.calls < MaxCalls
  /\ pc' = [pc EXCEPT ![p] = next]
  /\ job' = [job EXCEPT ![p] = item]
  /\ acked' = [acked EXCEPT !.calls = @ + 1]

StepCall(p, from, next) ==
  /\ pc[p] = from
  /\ pc' = [pc EXCEPT ![p] = next]
  /\ job' = [job EXCEPT ![p] = IF next \in {"idle", "KeyError"} THEN EmptyDict ELSE @]
  /\ UNCHANGED acked

\* get_session, line 152 and _is_cache_valid line 47: session_id not in _cache_ttl
GetSessionTest(p) ==
  /\ StartCall(p, IF TheSid \in DOMAIN cache_ttl THEN "is_cache_valid_compare"
                  ELSE "get_item", EmptyDict)
  /\ UNCHANGED <<now, storeVars, cacheVars, histVars, quotaVars, chatVars>>

\* _is_cache_valid line 49: time.time() < _cache_ttl[session_id]
GetSessionCompare(p) ==
  /\ StepCall(p, "is_cache_valid_compare",
              IF TheSid \notin DOMAIN cache_ttl THEN "KeyError"
              ELSE IF now < cache_ttl[TheSid] THEN "read_cache"
              ELSE "get_item")
  /\ UNCHANGED <<now, storeVars, cacheVars, histVars, quotaVars, chatVars>>

\* get_session line 153 (and line 172): _session_cache[session_id]
GetSessionRead(p) ==
  /\ StepCall(p, "read_cache",
              IF TheSid \in DOMAIN session_cache THEN "idle" ELSE "KeyError")
  /\ UNCHANGED <<now, storeVars, cacheVars, histVars, quotaVars, chatVars>>

\* get_session lines 155-173: get_item; a hit goes on to _update_cache, a
\* store error to the cached entry when line 171 finds one.
GetSessionStore(p) ==
  \E ok \in BOOLEAN :
    /\ pc[p] = "get_item"
    /\ pc' = [pc EXCEPT ![p] =
                IF ok THEN IF TheSession \in DOMAIN sessions
                           THEN "update_cache_value" ELSE "idle"
                ELSE IF TheSid \in DOMAIN session_cache
                     THEN "read_cache" ELSE "idle"]
    /\ job' = [job EXCEPT ![p] =
                 IF ok /\ TheSession \in DOMAIN sessions
                 THEN [item |-> sessions[TheSession]] ELSE EmptyDict]
    /\ UNCHANGED <<now, storeVars, cacheVars, histVars, acked, quotaVars, chatVars>>

\* create_session lines 128-138: put_item, then _update_cache on both branches.
CreateSessionStore(p) ==
  \E ok \in BOOLEAN :
    LET session == NewSession(TheTenant, TheUser, TheSid, None)
    IN /\ StartCall(p, "update_cache_value", [item |-> session])
       /\ sessions' = IF ok THEN DictSet(sessions, TheSession, session) ELSE sessions
       /\ UNCHANGED <<now, messages, usage, cost_metrics, cacheVars, histVars,
                      quotaVars, chatVars>>

\* update_session lines 204-221: update_item with ReturnValues ALL_NEW; the
\* attributes it returned go to _update_cache.
UpdateSessionStore(p) ==
  \E title \in Titles, ok \in BOOLEAN :
    LET updates == [title |-> title]
        rows == update_item(sessions, TheSession, TheBase, update_expression(updates))
    IN /\ IF update_session_ok(updates, ok)
          THEN /\ StartCall(p, "update_cache_value", [item |-> rows[TheSession]])
               /\ sessions' = rows
          ELSE /\ StartCall(p, "idle", EmptyDict)
               /\ UNCHANGED sessions
       /\ UNCHANGED <<now, messages, usage, cost_metrics, cacheVars, histVars,
                      quotaVars, chatVars>>

\* delete_session lines 232-262: the store calls, then _invalidate_cache.
DeleteSessionStore(p) ==
  \E ok \in BOOLEAN :
    /\ StartCall(p, IF ok THEN "invalidate_cache_value" ELSE "idle", EmptyDict)
    /\ sessions' = IF ok THEN DictPop(sessions, TheSession) ELSE sessions
    /\ messages' = IF ok
                   THEN [m \in DOMAIN messages \ MessagesOf(TheTenant, TheUser, TheSid)
                           |-> messages[m]]
                   ELSE messages
    /\ UNCHANGED <<now, usage, cost_metrics, cacheVars, histVars, quotaVars, chatVars>>

\* _update_cache line 53: _session_cache[session_id] = data
UpdateCacheValue(p) ==
  /\ pc[p] = "update_cache_value"
  /\ session_cache' = DictSet(session_cache, TheSid, job[p].item)
  /\ pc' = [pc EXCEPT ![p] = "update_cache_ttl"]
  /\ UNCHANGED <<now, storeVars, cache_ttl, histVars, job, acked, quotaVars, chatVars>>

\* _update_cache line 54: _cache_ttl[session_id] = time.time() + CACHE_DURATION_SECONDS
UpdateCacheTtl(p) ==
  /\ StepCall(p, "update_cache_ttl", "idle")
  /\ cache_ttl' = DictSet(cache_ttl, TheSid, now + CACHE_DURATION_SECONDS)
  /\ UNCHANGED <<now, storeVars, session_cache, histVars, quotaVars, chatVars>>

\* _invalidate_cache line 58: _session_cache.pop(session_id, None)
InvalidateCacheValue(p) ==
  /\ StepCall(p, "invalidate_cache_value", "invalidate_cache_ttl")
  /\ session_cache' = DictPop(session_cache, TheSid)
  /\ UNCHANGED <<now, storeVars, cache_ttl, histVars, quotaVars, chatVars>>

\* _invalidate_cache line 59: _cache_ttl.pop(session_id, None)
InvalidateCacheTtl(p) ==
  /\ StepCall(p, "invalidate_cache_ttl", "idle")
  /\ cache_ttl' = DictPop(cache_ttl, TheSid)
  /\ UNCHANGED <<now, storeVars, session_cache, histVars, quotaVars, chatVars>>

GetSessionTestStep == \E p \in Procs : GetSessionTest(p)
GetSessionCompareStep == \E p \in Procs : GetSessionCompare(p)
GetSessionReadStep == \E p \in Procs : GetSessionRead(p)
GetSessionStoreStep == \E p \in Procs : GetSessionStore(p)
CreateSessionStoreStep == \E p \in Procs : CreateSessionStore(p)
UpdateSessionStoreStep == \E p \in Procs : UpdateSessionStore(p)
DeleteSessionStoreStep == \E p \in Procs : DeleteSessionStore(p)
UpdateCacheValueStep == \E p \in Procs : UpdateCacheValue(p)
UpdateCacheTtlStep == \E p \in Procs : UpdateCacheTtl(p)
InvalidateCacheValueStep == \E p \in Procs : InvalidateCacheValue(p)
InvalidateCacheTtlStep == \E p \in Procs : InvalidateCacheTtl(p)

NextCache ==
  \/ GetSessionTestStep
  \/ GetSessionCompareStep
  \/ GetSessionReadStep
  \/ GetSessionStoreStep
  \/ CreateSessionStoreStep
  \/ UpdateSessionStoreStep
  \/ DeleteSessionStoreStep
  \/ UpdateCacheValueStep
  \/ UpdateCacheTtlStep
  \/ InvalidateCacheValueStep
  \/ InvalidateCacheTtlStep
  \/ Tick

SpecCache == Init /\ [][NextCache]_vars

NoCallInProgress == \A p \in Procs : pc[p] = "idle"

\* C32: under every interleaving of the four handlers on one session id no
\* call ends with a KeyError raised by a cache dict, and whenever no call is
\* in progress the value map and the expiry map have the same keys.
C32_CacheSafeUnderConcurrency ==
  /\ \A p \in Procs : pc[p] # "KeyError"
  /\ NoCallInProgress => DOMAIN session_cache = DOMAIN cache_ttl

\* C33: every session row in the store was written by create_session and not
\* deleted since: add_message, record_usage and update_session addressed to
\* a session id that has no row leave it without one.  (A row written by
\* create_session carries created_at; no other handler sets it.)
C33_NoResurrection ==
  \A key \in DOMAIN sessions : Created(sessions[key])

\* C34: whenever get_session answers from a valid cache entry for a session
\* that create_session stored, the message_count and total_tokens it returns
\* are those of the session row, whatever add_message and record_usage calls
\* have completed since the entry was cached.
C34_CachedCountersTrackStore ==
  (/\ is_cache_valid(TheSid)
   /\ TheSession \in DOMAIN sessions
   /\ Created(sessions[TheSession])) =>
    LET r == get_session_result(TheSid, TheTenant, TheUser, TRUE)[1]
    IN /\ r.message_count = Counter(sessions[TheSession], "message_count")
       /\ r.total_tokens = Counter(sessions[TheSession], "total_tokens")

\* ------------------------------------------------------------ SpecWriters
\* Concurrent update_session calls that set the title of one session, which
\* create_session has stored and cached.
InitWriters ==
  /\ now = 0
  /\ sessions = (TheSession :> NewSession(TheTenant, TheUser, TheSid, None))
  /\ messages = EmptyDict
  /\ usage = EmptyDict
  /\ cost_metrics = EmptyDict
  /\ session_cache = (TheSid :> sessions[TheSession])
  /\ cache_ttl = (TheSid :> now + CACHE_DURATION_SECONDS)
  /\ lastCreate = None
  /\ deleted = {}
  /\ log = EmptyDict
  /\ obs = None
  /\ InitProcs
  /\ InitQuota
  /\ InitChat

NextWriters ==
  \/ UpdateSessionStoreStep
  \/ UpdateCacheValueStep
  \/ UpdateCacheTtlStep
  \/ Tick

SpecWriters == InitWriters /\ [][NextWriters]_vars

\* C35: once the concurrent update_session calls on a session have all
\* returned, the title in the cached snapshot is the title in the session row
\* (the last write the store applied).
C35_CacheConvergesToLastWriter ==
  NoCallInProgress =>
    session_cache[TheSid].title = sessions[TheSession].title

\* ------------------------------------------------------------ SpecTenants
\* TenantManager (src/app/tenant_manager.py): sessions in a dict keyed by the
\* string "<tenant>-<user>-<session>", metrics in a dict of lists keyed by
\* tenant.  Identifiers are strings, written here as sequences of tokens so
\* that the f-string is a concatenation: "a-b" is <<"a", "-", "b">>.
\* tenant_sessions is self.tenant_sessions, tenant_usage self.usage_metrics;
\* obs holds the (tenant, user, returned id) of every create_session call.
TenantIds == {<<"a">>, <<"a", "-", "b">>}
UserIds == {<<"c">>, <<"b", "-", "c">>}
Uuids == {<<"x1">>, <<"x2">>}

\* f"{tenant_id}-{user_id}-{session_id}"
tm_session_key(tenant_id, user_id, session_id) ==
  tenant_id \o <<"-">> \o user_id \o <<"-">> \o session_id

TenantSession(tenant_id, user_id, session_id) ==
  [tenant_id |-> tenant_id,
   user_id |-> user_id,
   session_id |-> session_id,
   created_at |-> now,
   last_activity |-> now,
   message_count |-> 0]

tm_create_session(tenant_id, user_id, uuid4) ==
  tenant_sessions' = DictSet(tenant_sessions,
                             tm_session_key(tenant_id, user_id, uuid4),
                             TenantSession(tenant_id, user_id, uuid4))

tm_get_session(tenant_id, user_id, session_id) ==
  DictGet(tenant_sessions, tm_session_key(tenant_id, user_id, session_id), None)

tm_update_session_activity(tenant_id, user_id, session_id) ==
  LET key == tm_session_key(tenant_id, user_id, session_id)
  IN tenant_sessions' =
       IF key \in DOMAIN tenant_sessions
       THEN DictSet(tenant_sessions, key,
              DictUpdate(tenant_sessions[key],
                         [last_activity |-> now,
                          message_count |-> tenant_sessions[key].message_count + 1]))
       ELSE tenant_sessions

tm_record_usage_metric(metric) ==
  tenant_usage' = DictSet(tenant_usage, metric.tenant_id,
                          Append(DictGet(tenant_usage, metric.tenant_id, <<>>), metric))

\* metrics[-10:]
LastTen(metrics) ==
  IF Len(metrics) <= 10 THEN metrics
  ELSE SubSeq(metrics, Len(metrics) - 9, Len(metrics))

tm_get_all_tenant_sessions(tenant_id) ==
  {tenant_sessions[k] : k \in {x \in DOMAIN tenant_sessions :
                                 tenant_sessions[x].tenant_id = tenant_id}}

tm_get_tenant_usage(tenant_id) ==
  LET metrics == DictGet(tenant_usage, tenant_id, <<>>)
  IN [tenant_id |-> tenant_id,
      total_messages |-> Len(metrics),
      sessions |-> Cardinality({k \in DOMAIN tenant_sessions :
                                  tenant_sessions[k].tenant_id = tenant_id}),
      metrics |-> LastTen(metrics)]

CreatedSessions == IF obs = None THEN {} ELSE obs[1].created

InitTenants ==
  /\ InitLedger
  /\ InitProcs
  /\ InitQuota
  /\ tenant_sessions = EmptyDict
  /\ tenant_usage = EmptyDict
  /\ reqlog = [p \in Procs |-> NoRequest]

\* uuid4 is taken to return an id it has not returned before.
TmCreateSession ==
  \E t \in TenantIds, u \in UserIds, s \in Uuids :
    /\ \A c \in CreatedSessions : c[3] # s
    /\ tm_create_session(t, u, s)
    /\ obs' = Some([created |-> CreatedSessions \cup {<<t, u, s>>}])
    /\ UNCHANGED <<now, storeVars, cacheVars, lastCreate, deleted, log, procVars,
                   quotaVars, tenant_usage, reqlog>>

TmUpdateActivity ==
  \E t \in TenantIds, u \in UserIds, s \in Uuids :
    /\ tm_get_session(t, u, s) # None
    /\ tm_get_session(t, u, s).message_count < MaxMsgs
    /\ tm_update_session_activity(t, u, s)
    /\ UNCHANGED <<now, storeVars, cacheVars, histVars, procVars, quotaVars,
                   tenant_usage, reqlog>>

TmRecordMetric ==
  \E t \in TenantIds, s \in Uuids :
    /\ Len(DictGet(tenant_usage, t, <<>>)) < MaxMsgs
    /\ tm_record_usage_metric(UsageMetricItem(t, "agent_invocation", 1, s))
    /\ UNCHANGED <<now, storeVars, cacheVars, histVars, procVars, quotaVars,
                   tenant_sessions, reqlog>>

NextTenants == TmCreateSession \/ TmUpdateActivity \/ TmRecordMetric \/ Tick

SpecTenants == InitTenants /\ [][NextTenants]_vars

\* C36: get_session(t, u, s) returns a session only if create_session(t, u)
\* returned s, for identifiers with and without '-'; get_all_tenant_sessions(t)
\* and get_tenant_usage(t) report only sessions and metrics of tenant t.
C36_TenantsIsolated ==
  /\ \A t \in TenantIds, u \in UserIds, s \in Uuids :
       tm_get_session(t, u, s) # None => <<t, u, s>> \in CreatedSessions
  /\ \A t \in TenantIds :
       /\ \A session \in tm_get_all_tenant_sessions(t) : session.tenant_id = t
       /\ \A i \in DOMAIN tm_get_tenant_usage(t).metrics :
            tm_get_tenant_usage(t).metrics[i].tenant_id = t
       /\ tm_get_tenant_usage(t).sessions =
            Cardinality({c \in CreatedSessions : c[1] = t})

\* ------------------------------------------------------------ SpecKeys
\* The composite keys as strings.  An identifier is a sequence of tokens,
\* "#" among them, and an f-string is a concatenation, so that 'a#b' is
\* <<"a", "#", "b">> and its "#" is the same token as the separator.  obs
\* holds one build_session_key / parse_session_key round trip and the
\* partition key of a second (tenant, user) pair.
KeyIds == {<<"a">>, <<"b">>, <<"a", "#", "b">>, <<"b", "#", "c">>, <<"c">>}

\* f"SESSION#{tenant_id}#{user_id}#{session_id}"
build_session_key(tenant_id, user_id, session_id) ==
  <<"SESSION", "#">> \o tenant_id \o <<"#">> \o user_id \o <<"#">> \o session_id

\* key.split("#")
RECURSIVE split_hash(_)
split_hash(key) ==
  IF \A i \in DOMAIN key : key[i] # "#" THEN <<key>>
  ELSE LET i == CHOOSE j \in DOMAIN key :
                  key[j] = "#" /\ \A k \in 1..(j - 1) : key[k] # "#"
       IN <<SubSeq(key, 1, i - 1)>> \o split_hash(SubSeq(key, i + 1, Len(key)))

parse_session_key(key) ==
  LET parts == split_hash(key)
  IN IF Len(parts) >= 4 /\ parts[1] = <<"SESSION">>
     THEN [tenant_id |-> parts[2], user_id |-> parts[3], session_id |-> parts[4]]
     ELSE [session_id |-> key]

\* create_session line 110: "PK": f"SESSION#{tenant_id}#{user_id}"
SessionPKString(tenant_id, user_id) ==
  <<"SESSION", "#">> \o tenant_id \o <<"#">> \o user_id

RoundTrip ==
  \E t \in KeyIds, u \in KeyIds, s \in KeyIds, t2 \in KeyIds, u2 \in KeyIds :
    /\ obs = None
    /\ obs' = Some([tenant_id |-> t, user_id |-> u, session_id |-> s,
                    key |-> build_session_key(t, u, s),
                    parsed |-> parse_session_key(build_session_key(t, u, s)),
                    PK |-> SessionPKString(t, u),
                    other |-> [tenant_id |-> t2, user_id |-> u2,
                               PK |-> SessionPKString(t2, u2)]])
    /\ UNCHANGED <<now, storeVars, cacheVars, lastCreate, deleted, log, procVars,
                   quotaVars, chatVars>>

NextKeys == RoundTrip \/ Tick

SpecKeys == Init /\ [][NextKeys]_vars

\* C37: parse_session_key(build_session_key(t, u, s)) is exactly
\* {tenant_id: t, user_id: u, session_id: s} for all identifiers, those with
\* '#' included, and two different (tenant, user) pairs never have the same
\* partition key.
C37_KeysRoundTripAndInjective ==
  /\ (obs # None /\ "parsed" \in DOMAIN obs[1]) =>
       obs[1].parsed = [tenant_id |-> obs[1].tenant_id,
                        user_id |-> obs[1].user_id,
                        session_id |-> obs[1].session_id]
  /\ (/\ obs # None /\ "other" \in DOMAIN obs[1]
      /\ <<obs[1].tenant_id, obs[1].user_id>>
           # <<obs[1].other.tenant_id, obs[1].other.user_id>>) =>
       obs[1].PK # obs[1].other.PK
====
